---------------------------- MODULE Spec2Model ----------------------------
(***************************************************************************)
(* Model of the context lifecycle of the logging facade (lib.log):         *)
(* LogContext.__enter__/__exit__ (context.py), the GlobalLogContext        *)
(* singleton (context.py) and Log.log with its marker helpers (logger.py). *)
(*                                                                         *)
(* Python values whose type matters to the code (None, True, False versus  *)
(* strings) are modelled as the strings "<None>", "<True>", "<False>";     *)
(* every other string is a Python str.                                     *)
(*                                                                         *)
(* The standard library is modelled as of Python 3.6, the version the      *)
(* repository documents: Logger.isEnabledFor compares against              *)
(* getEffectiveLevel() without a cache, Logger.callHandlers walks the      *)
(* logger's handlers and then its parent's.                                *)
(***************************************************************************)
EXTENDS Integers, Sequences, FiniteSets, TLC

\* ------------------------------------------------------------------ bounds
MaxLogs == 2           \* log() calls per behaviour
MaxDepth == 2          \* scopes the caller has entered at once
RecursionLimit == 2    \* nested Log.log frames the interpreter allows
MaxFaults == 1         \* log() calls with an injected failure per behaviour

\* ------------------------------------------------------- Python constants
PyNone  == "<None>"
PyTrue  == "<True>"
PyFalse == "<False>"

IsStr(x) == x \notin {PyNone, PyTrue, PyFalse}

\* str(x) / f"{x}"
Str(x) ==
  IF x = PyNone THEN "None"
  ELSE IF x = PyTrue THEN "True"
  ELSE IF x = PyFalse THEN "False"
  ELSE x

\* level.py
NOTSET   == 0
DEBUG    == 10
INFO     == 20
WARNING  == 30
CRITICAL == 50
NoLevel  == -1         \* LogContext.level is None

\* private.py LogContextStatus
OPENING   == "OPENING"
CURRENT   == "CURRENT"
CLOSING   == "CLOSING"
NOCONTEXT == "NOCONTEXT"
LogContextStatus == {OPENING, CURRENT, CLOSING, NOCONTEXT}

\* ---------------------------------------------------------------- objects
\* LogContext objects, named by their Multiton index obj_idx.
Scopes == {"A", "B"}
None == "-"            \* an empty GlobalLogContext slot

\* Loggers of class Log; "root" is the RootLogger, their parent, which is
\* not a Log (it has no trace method).
Loggers == {"default", "mod"}
AllLoggers == Loggers \cup {"root"}
Parent(l) == "root"

\* Sinks: the console and file handlers configure_logging attaches to the
\* root logger, and the extra handler a LogContext may carry.
Sinks == {"console", "file", "extra"}
NoHandler == "-"
SinkType(s) ==
  CASE s = "console" -> "StreamHandler"
    [] s = "file"    -> "QuietFileHandler"
    [] OTHER         -> "QuietFileHandler"
ConsoleLevel == 30

\* LogContext.heading_level
heading_level == 20

\* Constructor arguments of a LogContext, after __init__.
\*   wrapped_function: "<False>" when getCallingFunction found no def.
Plain(lg, t) ==
  [logger |-> lg, title |-> t, heading |-> PyTrue, level |-> NoLevel,
   handler |-> NoHandler, close |-> TRUE,
   calling_class |-> PyFalse, wrapped_function |-> PyFalse]

Profiles(lg, t) ==
  { Plain(lg, t),
    [Plain(lg, PyNone) EXCEPT !.heading = "H" \o t],
    [Plain(lg, PyNone) EXCEPT !.calling_class = "cls",
                              !.wrapped_function = "fn" \o t],
    Plain(lg, PyNone),
    [Plain(lg, t) EXCEPT !.heading = PyFalse],
    [Plain(lg, t) EXCEPT !.level = WARNING, !.handler = "extra"],
    [Plain(lg, t) EXCEPT !.level = DEBUG, !.handler = "extra",
                         !.close = FALSE] }

ProfilesB(lg, t) ==
  { Plain(lg, t),
    [Plain(lg, t) EXCEPT !.heading = PyFalse],
    [Plain(lg, t) EXCEPT !.level = WARNING, !.handler = "extra"] }

ScopeLogger(s) == IF s = "A" THEN "default" ELSE "mod"

\* Threads of the host program; each works with a scope of its own.
Threads == {1, 2}
ScopeOf(t) == IF t = 1 THEN "A" ELSE "B"

\* ------------------------------------------------------------------ state
VARIABLES
  status,            \* GlobalLogContext.status
  context_current,   \* GlobalLogContext.context_current
  context_pending,   \* GlobalLogContext.context_pending
  context_prior,     \* GlobalLogContext.context_prior
  context_count,     \* LogContext.context_count, per scope
  old_level,         \* LogContext.old_level, per scope
  level,             \* Logger.level, per logger
  title,             \* Log.title, per logger
  handlers,          \* Logger.handlers, per logger (in attachment order)
  closed,            \* sinks on which close() has been called
  ctx,               \* the attributes of each LogContext
  out,               \* records handed to the sinks, in order (in brief)
  last,              \* the records the latest operation handed to the sinks
  printed,           \* diagnostics printed to stdout by Log.log
  raised,            \* exception the last operation raised to its caller
  stack,             \* scopes the caller has entered and not yet exited
  fresh,             \* entered scopes with no log() call since their enter
  silent,            \* scopes exited with no log() call inside
  lastop,            \* the latest operation and the Context State it found
  scen,              \* how far the caller is into enter, log, log, exit, log
  nlog, nfaults,     \* log() calls / injected failures so far
  pc,                \* threads: the statement each thread is at
  tslot,             \* threads: newcontext_obj of the thread's setContextStatus call
  phase,             \* threads: before, inside or after the thread's scope
  threshold,         \* Handler.level, per sink
  entry_level,       \* the logger's level found by each enter() of stack
  entry_handlers,    \* the logger's handlers found by each enter() of stack
  record,            \* formatter: the LogRecord handed to the sink
  written,           \* formatter: the texts the sink has written
  fraised,           \* formatter: what each format() call raised, "None" if nothing
  level_dict,        \* Level._level_dict: the registered ranks and their names
  level_id           \* Level.ID

gvars == <<status, context_current, context_pending, context_prior,
           context_count>>
lvars == <<old_level, level, title, handlers, closed>>
hvars == <<out, last, printed, raised, stack, fresh, silent, lastop, scen,
           nlog, nfaults>>
tvars == <<pc, tslot, phase>>
fvars == <<record, written, fraised>>
\* What log() and the thread steps never touch.
kvars == <<level_dict, level_id>>
cvars == <<ctx, threshold, entry_level, entry_handlers, fvars, kvars>>
vars == <<gvars, lvars, hvars, tvars, cvars>>


\* ------------------------------------------------ LogContext (context.py)
\* LogContext.getDefaultTitle
getDefaultTitle(s) ==
  IF ctx[s].wrapped_function # PyFalse
  THEN ctx[s].calling_class \o "." \o ctx[s].wrapped_function
  ELSE PyFalse

\* LogContext.getHeading
getHeading(s) ==
  IF IsStr(ctx[s].heading) THEN ctx[s].heading
  ELSE IF IsStr(ctx[s].title) THEN ctx[s].title
  ELSE getDefaultTitle(s)

\* Mutant: every logger passes the validity test of __enter__.
HasTrace_Any(l) == TRUE

\* hasattr(self.logger, "trace")
HasTrace(l) == l \in Loggers

\* Mutant: no sink filters.
Threshold_Open(s) == NOTSET

\* Handler.level of sink s, as configure_logging or a later setLevel left it.
Threshold(s) == threshold[s]

\* Sequencing of statements: Step applied to the value v of the statements
\* before it, v computed once.
Then(v, Step(_)) == CHOOSE r \in {Step(x) : x \in {v}} : TRUE

\* ------------------------------------------------- records and the sinks
\* The marker record logContextStatusOpening / Closing hands to Logger.log:
\* msg None, args {'context': ..., 'heading': ...}.  scope is the obj_idx of
\* the LogContext the marker is for; to is filled in on delivery.
Marker(context, s, heading, l) ==
  [context |-> context, heading |-> heading, msg |-> 0, levelno |-> heading_level,
   name |-> l, title |-> PyNone, scope |-> s, to |-> {}]

\* The record Log.log builds for the caller's message: the extra dict has
\* no 'context' key.
Body(msg, lvl, l, t) ==
  [context |-> PyNone, heading |-> PyFalse, msg |-> msg, levelno |-> lvl,
   name |-> l, title |-> t, scope |-> None, to |-> {}]

\* What out keeps of a record.
Brief(rec) ==
  [context |-> rec.context, heading |-> rec.heading, msg |-> rec.msg,
   scope |-> rec.scope]

\* DynamicLogFormatter.format, lines 170-171: the title a marker is rendered
\* with ("START <title>" / "END <title>").
MarkerTitle(rec) == IF IsStr(rec.heading) THEN rec.heading ELSE ""

\* Failures a log() call can meet.  at = "findCaller": capturing the caller
\* raises; at = "int": int(level) of line 150 raises; at = "sink": the sink raises kind on its first `times` accepts
\* of this call (Always: on every one); overflow is what becomes of the
\* RecursionError when the failure outlasts the interpreter's stack.
Always == -1
FallbackMsg == -1
NoFault ==
  [at |-> "none", sink |-> NoHandler, kind |-> "None", times |-> 0,
   overflow |-> "contained"]
FaultySinks == {"file", "extra"}
Faults ==
  { [NoFault EXCEPT !.at = "findCaller", !.kind = "Exception", !.times = 1] }
  \cup { [NoFault EXCEPT !.at = "sink", !.sink = s, !.kind = k, !.times = 1] :
           s \in FaultySinks, k \in {"OSError", "Exception"} }
  \cup { [NoFault EXCEPT !.at = "sink", !.sink = s, !.kind = "OSError",
                         !.times = Always, !.overflow = o] :
           s \in FaultySinks, o \in {"contained", "propagated"} }

SetMin(S) == CHOOSE x \in S : \A y \in S : x <= y

\* Logger.getEffectiveLevel
getEffectiveLevel(w, l) ==
  IF w.level[l] # NOTSET THEN w.level[l] ELSE w.level[Parent(l)]

\* Logger.isEnabledFor
isEnabledFor(w, l, lvl) == lvl >= getEffectiveLevel(w, l)

\* logging.Logger.log -> _log -> handle -> callHandlers: the record goes to
\* the logger's handlers, then its parent's, in order, each filtering by its
\* own threshold; a handler that raises ends the walk.
LoggerLog(w0, l, rec, f) ==
  Then(w0, LAMBDA w :
  IF ~isEnabledFor(w, l, rec.levelno) THEN w
  ELSE
    LET chain == w.handlers[l] \o w.handlers[Parent(l)]
        elig  == {i \in 1..Len(chain) : rec.levelno >= Threshold(chain[i])}
        bad   == IF f.at = "sink" /\ w.failleft # 0
                 THEN {i \in elig : chain[i] = f.sink} ELSE {}
        stop  == IF bad = {} THEN Len(chain) + 1 ELSE SetMin(bad)
        to    == {chain[i] : i \in {j \in elig : j < stop}}
    IN [w EXCEPT !.out = IF to = {} THEN @ ELSE Append(@, Brief(rec)),
                 !.last = IF to = {} THEN @ ELSE Append(@, [rec EXCEPT !.to = to]),
                 !.exc = IF bad = {} THEN "None" ELSE f.kind,
                 !.fired = @ \/ bad # {},
                 !.failleft = IF bad = {} \/ @ = Always THEN @ ELSE @ - 1])

\* ------------------------------------------------------- Log (logger.py)
\* Mutant: the closing step emits the marker but leaves the status CLOSING.
logContextStatusClosing_StaysClosing(w, l, f) ==
  LET c == w.current
      marked == c # None /\ ctx[c].heading # PyFalse
  IN Then(IF marked
          THEN LoggerLog(w, l, Marker(CLOSING, c, getHeading(c), l), f)
          ELSE w,
          LAMBDA w1 :
            IF w1.exc # "None" THEN w1
            ELSE [w1 EXCEPT !.prior = w1.current, !.current = None])

\* Mutant: the closing step leaves the closed scope in the current slot.
logContextStatusClosing_KeepsCurrent(w, l, f) ==
  LET c == w.current
      marked == c # None /\ ctx[c].heading # PyFalse
      context_exit_level == IF ctx[c].level # NoLevel THEN ctx[c].level ELSE INFO
      save_level == w.level[l]
  IN Then(IF marked
          THEN LoggerLog([w EXCEPT !.level[l] = context_exit_level], l,
                         Marker(CLOSING, c, getHeading(c), l), f)
          ELSE w,
          LAMBDA w1 :
            IF w1.exc # "None" THEN w1
            ELSE [w1 EXCEPT !.level[l] = save_level, !.status = NOCONTEXT,
                            !.prior = w1.current])

\* Log.logContextStatusClosing
logContextStatusClosing(w, l, f) ==
  LET c == w.current
      marked == c # None /\ ctx[c].heading # PyFalse
      context_exit_level == IF ctx[c].level # NoLevel THEN ctx[c].level ELSE INFO
      save_level == w.level[l]
  IN Then(IF marked
          THEN LoggerLog([w EXCEPT !.level[l] = context_exit_level], l,
                         Marker(CLOSING, c, getHeading(c), l), f)
          ELSE w,
          LAMBDA w1 :
            IF w1.exc # "None" THEN w1
            ELSE [w1 EXCEPT !.level[l] = save_level, !.status = NOCONTEXT,
                            !.prior = w1.current, !.current = None])

\* Mutant: the opening step does not count the record it opens with.
logContextStatusOpening_NoCount(w, l, f) ==
  LET c == w.current
  IN Then(IF ctx[c].heading # PyFalse
          THEN LoggerLog(w, l, Marker(OPENING, c, Str(getHeading(c)), l), f)
          ELSE w,
          LAMBDA w1 :
            IF w1.exc # "None" THEN w1
            ELSE [w1 EXCEPT !.status = CURRENT])

\* Log.logContextStatusOpening
logContextStatusOpening(w, l, f) ==
  LET c == w.current
  IN Then(IF ctx[c].heading # PyFalse
          THEN LoggerLog(w, l, Marker(OPENING, c, Str(getHeading(c)), l), f)
          ELSE w,
          LAMBDA w1 :
            IF w1.exc # "None" THEN w1
            ELSE [w1 EXCEPT !.status = CURRENT, !.count[c] = @ + 1])

\* Mutant: OPENING is stored as the status like any other value.
setContextStatus_Plain(w, l, context, newcontext_obj, f) ==
  [w EXCEPT !.status = context]

\* Log.setContextStatus
setContextStatus(w, l, context, newcontext_obj, f) ==
  IF context = OPENING
  THEN Then([w EXCEPT !.current = newcontext_obj],
            LAMBDA w1 : logContextStatusOpening(w1, l, f))
  ELSE [w EXCEPT !.status = context]

\* Log.removeHandler(hdlr, handlerClass); "<None>" for an absent argument.
\* hdlr is a sink, or the name of a class passed in its place.
removeHandler(hs, hdlr, handlerClass) ==
  IF handlerClass = PyNone
  THEN SelectSeq(hs, LAMBDA h : h # hdlr)
  ELSE SelectSeq(hs, LAMBDA h : SinkType(h) # handlerClass)

\* The title merge of Log.log, lines 133-137.
MergeTitle(selftitle, t) ==
  IF selftitle \notin {PyNone, PyFalse, ""}
  THEN IF t # PyNone THEN selftitle \o ": " \o t ELSE selftitle
  ELSE t

\* Mutant: the promoted scope is left in the pending slot.
clearPending_Keeps(w) == w

\* Log.log, line 130
clearPending(w) == [w EXCEPT !.pending = None]

\* Mutant: the caller's record is handed to the sinks before the Context
\* State is consulted.
logTry_RecordFirst(w0, l, lvl, msg, t, f) ==
  Then(LoggerLog(w0, l, Body(msg, lvl, l, MergeTitle(w0.title[l], t)), f),
       LAMBDA w1 :
  Then(IF w1.status = CURRENT /\ w1.current # None
       THEN [w1 EXCEPT !.count[w1.current] = @ + 1]
       ELSE w1, LAMBDA w2 :
  Then(IF w2.status = CLOSING THEN logContextStatusClosing(w2, l, f) ELSE w2,
       LAMBDA w3 :
    IF w3.pending # None
    THEN clearPending(setContextStatus(w3, l, OPENING, w3.pending, f))
    ELSE w3)))

\* The try block of Log.log, lines 109-150: findCaller, the count of the
\* current scope, the deferred close, the promotion of the pending scope,
\* the record itself.  An exception skips the statements after it.
logTry(w0, l, lvl, msg, t, f) ==
  Then(w0, LAMBDA w :
  Then(IF f.at = "findCaller" /\ w.failleft # 0
       THEN [w EXCEPT !.exc = f.kind, !.failleft = @ - 1, !.fired = TRUE]
       ELSE w, LAMBDA w1 :
  Then(IF w1.exc # "None" THEN w1
       ELSE IF w1.status = CURRENT /\ w1.current # None
            THEN [w1 EXCEPT !.count[w1.current] = @ + 1]
            ELSE w1, LAMBDA w2 :
  Then(IF w2.exc # "None" THEN w2
       ELSE IF w2.status = CLOSING THEN logContextStatusClosing(w2, l, f)
       ELSE w2, LAMBDA w3 :
  Then(IF w3.exc # "None" THEN w3
       ELSE IF w3.pending # None
            THEN Then(setContextStatus(w3, l, OPENING, w3.pending, f),
                      LAMBDA o : IF o.exc # "None" THEN o
                                 ELSE clearPending(o))
            ELSE w3, LAMBDA w4 :
    IF w4.exc # "None" THEN w4
    ELSE IF f.at = "int" THEN [w4 EXCEPT !.exc = f.kind, !.fired = TRUE]
    ELSE LoggerLog(w4, l, Body(msg, lvl, l, MergeTitle(w4.title[l], t)), f))))))

\* Log.log: the try block and its two except clauses.  The OSError clause
\* calls removeHandler(QuietFileHandler) and then critical(), which calls
\* log() again; depth counts the Log.log frames on the interpreter stack.
\* When the stack is exhausted the RecursionError is either absorbed by the
\* innermost frame's `except Exception` (f.overflow = "contained") or
\* raised again inside that handler and so out of every frame (f.overflow =
\* "propagated"), depending on where in the frame the limit is hit.
RECURSIVE log(_, _, _, _, _, _, _)
log(w, l, lvl, msg, t, f, depth) ==
  Then(logTry(w, l, lvl, msg, t, f), LAMBDA r :
    CASE r.exc = "None" -> r
      [] r.exc = "OSError" ->
           Then([r EXCEPT !.exc = "None", !.frames = depth + 2,
                          !.handlers[l] = removeHandler(@, "QuietFileHandler", PyNone)],
                LAMBDA r1 :
                  IF depth < RecursionLimit
                  THEN log(r1, l, CRITICAL, FallbackMsg, PyNone, f, depth + 1)
                  ELSE IF f.overflow = "contained"
                       THEN [r1 EXCEPT !.printed = @ + 1, !.frames = depth + 1]
                       ELSE [r1 EXCEPT !.exc = "RecursionError", !.frames = depth + 1])
      [] OTHER -> [r EXCEPT !.exc = "None", !.printed = @ + 1])

\* ---------------------------------------------------------------- actions
\* The program state as one value, for the operators above.
World ==
  [status |-> status, current |-> context_current, pending |-> context_pending,
   prior |-> context_prior, count |-> context_count, level |-> level,
   title |-> title, handlers |-> handlers, out |-> out, last |-> <<>>,
   printed |-> printed,
   exc |-> "None", failleft |-> 0, fired |-> FALSE, frames |-> 1]

Apply(w) ==
  /\ status' = w.status
  /\ context_current' = w.current
  /\ context_pending' = w.pending
  /\ context_prior' = w.prior
  /\ context_count' = w.count
  /\ level' = w.level
  /\ title' = w.title
  /\ handlers' = w.handlers
  /\ out' = w.out
  /\ last' = w.last
  /\ printed' = w.printed
  /\ raised' = w.exc

\* Levels the caller logs at: one the console sink filters out and one it
\* accepts; calls that meet a failure are made at the first.
LogLevels == {INFO, WARNING}
FaultLevels == {INFO}

\* The record kept of an operation: its name and argument, the status and
\* current slot it found, the failure it met (log), whether that failure
\* occurred, and the Log.log frames it used.
Op(op, arg, f, fired, frames) ==
  [op |-> op, arg |-> arg, status |-> status, current |-> context_current,
   fault |-> f, fired |-> fired, frames |-> frames]

\* The scenario enter(S), log, log, exit(S), log from the initial state, S
\* constructed with a title and nothing else: scen is the number of its
\* operations done (Off once the caller has left it) and S.
Off == -1
scenNext(op, s) ==
  CASE scen.n = 0 /\ op = "enter" /\ ctx[s] = Plain(ScopeLogger(s), s) ->
         [n |-> 1, s |-> s]
    [] scen.n \in {1, 2, 4} /\ op = "log" -> [scen EXCEPT !.n = @ + 1]
    [] scen.n = 3 /\ op = "exit" -> [scen EXCEPT !.n = 4]
    [] OTHER -> [n |-> Off, s |-> None]

\* No record has been handed to a formatter.
NoRecord == [msg |-> "-"]

\* ------------------------------------------------------- Level (level.py)
\* The class attributes of Level, lines 65-72, beside those of the model's
\* first section.
TRACE  == 5
NOTICE == 25
ERROR  == 40

\* getattr(Level, name); NoAttr: the class has no such attribute.
NoAttr == -2
LevelAttr(name) ==
  CASE name = "NOTSET" -> NOTSET [] name = "TRACE" -> TRACE
    [] name = "DEBUG" -> DEBUG [] name = "INFO" -> INFO
    [] name = "NOTICE" -> NOTICE [] name = "WARNING" -> WARNING
    [] name = "ERROR" -> ERROR [] name = "CRITICAL" -> CRITICAL
    [] OTHER -> NoAttr

\* d.update({k: v})
update(d, k, v) == [x \in DOMAIN d \cup {k} |-> IF x = k THEN v ELSE d[x]]

\* Level.ID before any Level is made (None).
NoId == -1

\* Mutant: Level.__new__ registers a name only when its rank is true.
LevelNew_Truthy(c, name) ==
  LET id == LevelAttr(name)
  IN IF id = NoAttr THEN [c EXCEPT !.exc = "AttributeError"]
     ELSE [ID |-> id, exc |-> "None",
           dict |-> IF id # 0 THEN update(c.dict, id, name) ELSE c.dict]

\* Level.__new__(cls, id_name) with a str: the rank is the class attribute
\* of that name, and the name is registered under it (the rank is never
\* None for an attribute of lines 65-72).
LevelNew(c, name) ==
  LET id == LevelAttr(name)
  IN IF id = NoAttr THEN [c EXCEPT !.exc = "AttributeError"]
     ELSE [ID |-> id, exc |-> "None",
           dict |-> IF id # NoId THEN update(c.dict, id, name) ELSE c.dict]

\* Level.__new__(cls, id_name) with an int
LevelOfInt(c, n) == [c EXCEPT !.ID = n, !.exc = "None"]

\* The statements of level.py, lines 75-82, in order.
LevelNames ==
  <<"NOTSET", "TRACE", "DEBUG", "INFO", "NOTICE", "WARNING", "ERROR",
    "CRITICAL">>

\* The class after the first i of them.
RECURSIVE LevelModule(_)
LevelModule(i) ==
  IF i = 0 THEN [ID |-> NoId, exc |-> "None", dict |-> <<>>]
  ELSE LevelNew(LevelModule(i - 1), LevelNames[i])

\* GlobalLogContext, the loggers and the sinks after configure_logging, with
\* no scope entered and nothing logged.
InitLifecycle ==
  /\ status = NOCONTEXT
  /\ context_current = None
  /\ context_pending = None
  /\ context_prior = None
  /\ context_count = [s \in Scopes |-> 0]
  /\ old_level = [s \in Scopes |-> NOTSET]
  /\ level = [l \in AllLoggers |-> NOTSET]
  /\ title = [l \in AllLoggers |-> PyNone]
  /\ handlers = [l \in AllLoggers |-> IF l = "root" THEN <<"console", "file">> ELSE <<>>]
  /\ closed = {}
  /\ threshold = [s \in Sinks |-> IF s = "console" THEN ConsoleLevel ELSE NOTSET]
  /\ entry_level = <<>>
  /\ entry_handlers = <<>>
  /\ out = <<>>
  /\ last = <<>>
  /\ printed = 0
  /\ raised = "None"
  /\ stack = <<>>
  /\ fresh = {}
  /\ silent = {}
  /\ lastop = Op("init", None, NoFault, FALSE, 0)
  /\ scen = [n |-> 0, s |-> None]
  /\ nlog = 0
  /\ nfaults = 0
  /\ pc = [t \in Threads |-> "idle"]
  /\ tslot = [t \in Threads |-> None]
  /\ phase = [t \in Threads |-> "new"]
  /\ level_dict = LevelModule(Len(LevelNames)).dict
  /\ level_id = LevelModule(Len(LevelNames)).ID

InitNoRecord ==
  /\ record = NoRecord
  /\ written = <<>>
  /\ fraised = <<>>

Init ==
  /\ InitLifecycle
  /\ \E a \in Profiles(ScopeLogger("A"), "A"), b \in ProfilesB(ScopeLogger("B"), "B") :
       ctx = [s \in Scopes |-> IF s = "A" THEN a ELSE b]
  /\ InitNoRecord

\* Mutant: __enter__ without its last test (lines 108-109).
enterStatus_NoReset(s, cur, st) ==
  IF cur # s /\ cur # None THEN CLOSING ELSE st

\* Mutant: __enter__ declares the scope current.
enterStatus_Current(s, cur, st) == CURRENT

\* The Context State part of LogContext.__enter__, lines 103-109.
enterStatus(s, cur, st) ==
  LET st1 == IF cur # s /\ cur # None THEN CLOSING ELSE st
  IN IF cur = s /\ st1 = CLOSING THEN CURRENT ELSE st1

\* Mutant: enter() sets pending without comparing identities.
enterPending_Always(s, cur, pend) == s

enterPending(s, cur, pend) == IF cur # s THEN s ELSE pend

\* Mutant: __enter__ attaches the extra handler without looking.
enterHandler_Always(hs, h) == Append(hs, h)

\* __enter__, lines 99-100: the extra handler is attached unless it is
\* already in the logger's list.
enterHandler(hs, h) ==
  IF \A i \in 1..Len(hs) : hs[i] # h THEN Append(hs, h) ELSE hs

\* LogContext.__enter__
Enter(s) ==
  /\ Len(stack) < MaxDepth
  /\ LET lg == ctx[s].logger
     IN IF ~HasTrace(lg)
        THEN /\ raised' = "TypeError"
             /\ UNCHANGED <<gvars, lvars, stack, fresh, silent, entry_level,
                            entry_handlers>>
        ELSE /\ raised' = "None"
             /\ IF ctx[s].level # NoLevel
                THEN /\ old_level' = [old_level EXCEPT ![s] = level[lg]]
                     /\ level' = [level EXCEPT ![lg] = ctx[s].level]
                ELSE UNCHANGED <<old_level, level>>
             /\ handlers' =
                  IF ctx[s].handler # NoHandler
                  THEN [handlers EXCEPT ![lg] = enterHandler(@, ctx[s].handler)]
                  ELSE handlers
             /\ title' = [title EXCEPT ![lg] = ctx[s].title]
             /\ context_pending' = enterPending(s, context_current, context_pending)
             /\ status' = enterStatus(s, context_current, status)
             /\ stack' = Append(stack, s)
             /\ entry_level' = Append(entry_level, level[lg])
             /\ entry_handlers' = Append(entry_handlers, handlers[lg])
             /\ fresh' = fresh \cup {s}
             /\ silent' = silent \ {s}
             /\ UNCHANGED <<context_current, context_prior, context_count, closed>>
  /\ last' = <<>>
  /\ lastop' = Op("enter", s, NoFault, FALSE, 0)
  /\ scen' = scenNext("enter", s)
  /\ UNCHANGED <<out, printed, nlog, nfaults, tvars, ctx, threshold, fvars,
                 kvars>>

\* __exit__ has no return statement (line 140).
exitReturn == PyNone

\* LogContext.__exit__(typeof, value, traceback); the caller exits the scope
\* it entered last, exc being the exception that ended the with block
\* ("None": the block ran to its end).  The with statement raises exc again
\* unless __exit__ returns a true value.
ExitWith(s, exc) ==
  /\ stack # <<>>
  /\ s = stack[Len(stack)]
  /\ stack' = SubSeq(stack, 1, Len(stack) - 1)
  /\ entry_level' = SubSeq(entry_level, 1, Len(entry_level) - 1)
  /\ entry_handlers' = SubSeq(entry_handlers, 1, Len(entry_handlers) - 1)
  /\ fresh' = fresh \ {s}
  /\ silent' = IF s \in fresh THEN silent \cup {s} ELSE silent \ {s}
  /\ raised' = IF exitReturn = PyTrue THEN "None" ELSE exc
  /\ LET lg == ctx[s].logger
     IN /\ level' = IF ctx[s].level # NoLevel
                    THEN [level EXCEPT ![lg] = old_level[s]] ELSE level
        /\ title' = IF ctx[s].title # PyNone
                    THEN [title EXCEPT ![lg] = PyNone] ELSE title
        /\ handlers' = IF ctx[s].handler # NoHandler
                       THEN [handlers EXCEPT ![lg] = removeHandler(@, ctx[s].handler, PyNone)]
                       ELSE handlers
        /\ closed' = IF ctx[s].handler # NoHandler /\ ctx[s].close
                     THEN closed \cup {ctx[s].handler} ELSE closed
  /\ status' = IF context_count[s] > 0 THEN CLOSING ELSE status
  /\ context_count' = [context_count EXCEPT ![s] = 0]
  /\ UNCHANGED <<context_current, context_pending, context_prior, old_level>>
  /\ last' = <<>>
  /\ lastop' = Op("exit", s, [NoFault EXCEPT !.kind = exc], FALSE, 0)
  /\ scen' = scenNext("exit", s)
  /\ UNCHANGED <<out, printed, nlog, nfaults, tvars, ctx, threshold, fvars,
                 kvars>>

\* The with block ran to its end.
Exit(s) == ExitWith(s, "None")

\* Log.log(level, msg) on logger l, every sink accepting.  The scenario
\* tracked by scen is let run to its last log() call.
Log(l, lvl) ==
  /\ nlog < MaxLogs \/ scen.n = 4
  /\ nlog' = nlog + 1
  /\ \E w \in {log(World, l, lvl, nlog + 1, PyNone, NoFault, 0)} :
       Apply(w) /\ lastop' = Op("log", l, NoFault, w.fired, w.frames)
  /\ scen' = scenNext("log", None)
  /\ fresh' = {}
  /\ UNCHANGED <<old_level, closed, stack, silent, nfaults, tvars, cvars>>

\* Log.log(level, msg) on logger l, meeting the failure f.
LogFault(l, lvl, f) ==
  /\ nlog < MaxLogs
  /\ nfaults < MaxFaults
  /\ nlog' = nlog + 1
  /\ nfaults' = nfaults + 1
  /\ \E w \in {log([World EXCEPT !.failleft = f.times], l, lvl, nlog + 1,
                    PyNone, f, 0)} :
       Apply(w) /\ lastop' = Op("log", l, f, w.fired, w.frames)
  /\ scen' = [n |-> Off, s |-> None]
  /\ fresh' = {}
  /\ UNCHANGED <<old_level, closed, stack, silent, tvars, cvars>>

Next ==
  \/ \E s \in Scopes : Enter(s)
  \/ \E s \in Scopes : Exit(s)
  \/ \E l \in Loggers, lvl \in LogLevels : Log(l, lvl)

Spec == Init /\ [][Next]_vars

NextFault ==
  \/ Next
  \/ \E l \in Loggers, lvl \in FaultLevels, f \in Faults : LogFault(l, lvl, f)

SpecFault == Init /\ [][NextFault]_vars

\* ------------------------------------------------- scopes on one logger
\* Two scopes given the same logger, with level overrides, an extra handler
\* they share, and titles; or a scope given the root logger, which is a
\* logging.RootLogger and not a Log.
ScopeProfilesA ==
  { [Plain("default", "A") EXCEPT !.level = WARNING, !.handler = "extra"],
    [Plain("default", "A") EXCEPT !.level = DEBUG, !.handler = "extra",
                                  !.close = FALSE],
    [Plain("root", "A") EXCEPT !.level = WARNING, !.handler = "extra"] }

ScopeProfilesB ==
  { Plain("default", "B"),
    [Plain("default", "B") EXCEPT !.level = DEBUG, !.handler = "extra"] }

InitScope ==
  /\ InitLifecycle
  /\ \E a \in ScopeProfilesA, b \in ScopeProfilesB :
       ctx = [s \in Scopes |-> IF s = "A" THEN a ELSE b]
  /\ InitNoRecord

\* Exceptions that end a with block.
BlockErrors == {"ValueError"}

\* The with block raised.
ExitRaising(s) == \E exc \in BlockErrors : ExitWith(s, exc)

\* Titles a log() call supplies.
CallTitles == {"t"}

\* Log.log(level, msg, title=t) on logger l, every sink accepting.
LogTitled(l, lvl, t) ==
  /\ nlog < MaxLogs
  /\ nlog' = nlog + 1
  /\ \E w \in {log(World, l, lvl, nlog + 1, t, NoFault, 0)} :
       Apply(w) /\ lastop' = Op("log", l, NoFault, w.fired, w.frames)
  /\ scen' = [n |-> Off, s |-> None]
  /\ fresh' = {}
  /\ UNCHANGED <<old_level, closed, stack, silent, nfaults, tvars, cvars>>

\* Levels the console sink is set to after configure_logging.
SinkLevels == {INFO, WARNING}

\* Handler.setLevel(lvl) on sink s, as configure_logging calls it.
setLevel(s, lvl) ==
  /\ threshold' = [threshold EXCEPT ![s] = lvl]
  /\ last' = <<>>
  /\ lastop' = Op("setLevel", s, NoFault, FALSE, 0)
  /\ raised' = "None"
  /\ scen' = [n |-> Off, s |-> None]
  /\ UNCHANGED <<gvars, lvars, out, printed, stack, fresh, silent, nlog,
                 nfaults, tvars, ctx, entry_level, entry_handlers, fvars,
                 kvars>>

NextScope ==
  \/ Next
  \/ \E s \in Scopes : ExitRaising(s)
  \/ \E l \in Loggers, lvl \in LogLevels, t \in CallTitles : LogTitled(l, lvl, t)
  \/ \E lvl \in SinkLevels : setLevel("console", lvl)

SpecScope == InitScope /\ [][NextScope]_vars

\* ------------------------------------------------------ formatter: text
\* A Python str is a sequence of atoms: "\n", ":" and every run of spaces
\* are atoms of their own, every other atom is a run of other characters.
\* No atom is empty.
RECURSIVE Rep(_, _)
Rep(ch, n) ==
  IF n <= 0 THEN ""
  ELSE IF n = 1 THEN ch
  ELSE Rep(ch, n \div 2) \o Rep(ch, n - (n \div 2))

\* n times ch, as a str
Fill(ch, n) == IF n <= 0 THEN <<>> ELSE <<Rep(ch, n)>>

\* len(t)
RECURSIVE TLen(_)
TLen(t) ==
  IF t = <<>> THEN 0
  ELSE IF Len(t) = 1 THEN Len(t[1])
  ELSE TLen(SubSeq(t, 1, Len(t) \div 2))
       + TLen(SubSeq(t, (Len(t) \div 2) + 1, Len(t)))

IsSpaces(a) == a = Rep(" ", Len(a))

\* a.isspace()
IsSpace(a) == a = "\n" \/ IsSpaces(a)

AtomClass(a) ==
  IF a = "\n" THEN "newline"
  ELSE IF a = ":" THEN "colon"
  ELSE IF IsSpaces(a) THEN "spaces"
  ELSE "other"

\* The same str with adjacent atoms of one kind joined, so that equal strs
\* are equal sequences.
RECURSIVE Norm(_)
Norm(t) ==
  IF Len(t) <= 1 THEN t
  ELSE Then(Norm(SubSeq(t, 1, Len(t) \div 2)), LAMBDA a :
       Then(Norm(SubSeq(t, (Len(t) \div 2) + 1, Len(t))), LAMBDA b :
         IF AtomClass(a[Len(a)]) = AtomClass(b[1])
            /\ AtomClass(b[1]) \in {"spaces", "other"}
         THEN SubSeq(a, 1, Len(a) - 1) \o <<a[Len(a)] \o b[1]>> \o Tail(b)
         ELSE a \o b))

\* str.center(width, fill)
center(t, width, fill) ==
  Then(width - TLen(t), LAMBDA marg :
    IF marg <= 0 THEN t
    ELSE Then((marg \div 2) + ((marg % 2) * (width % 2)), LAMBDA left :
           Fill(fill, left) \o t \o Fill(fill, marg - left)))

\* str.ljust(width)
ljust(t, width) == t \o Fill(" ", width - TLen(t))

\* str.lstrip()
RECURSIVE lstrip(_)
lstrip(t) == IF t # <<>> /\ IsSpace(t[1]) THEN lstrip(Tail(t)) ELSE t

\* str.rstrip("\n")
RECURSIVE rstripNewlines(_)
rstripNewlines(t) ==
  IF t # <<>> /\ t[Len(t)] = "\n" THEN rstripNewlines(SubSeq(t, 1, Len(t) - 1))
  ELSE t

\* len(t.strip()) > 0
HasText(t) == \E i \in 1..Len(t) : ~IsSpace(t[i])

HasColon(t) == \E i \in 1..Len(t) : t[i] = ":"

\* "".join(t.rsplit(":", 1))
RemoveLastColon(t) ==
  IF ~HasColon(t) THEN t
  ELSE Then(CHOOSE i \in 1..Len(t) :
              t[i] = ":" /\ \A j \in (i + 1)..Len(t) : t[j] # ":",
            LAMBDA i : SubSeq(t, 1, i - 1) \o SubSeq(t, i + 1, Len(t)))

\* t.replace("\n", "\n" + " " * n)
RECURSIVE Indent(_, _)
Indent(t, n) ==
  IF t = <<>> THEN <<>>
  ELSE IF Len(t) = 1
  THEN (IF t[1] = "\n" THEN <<"\n">> \o Fill(" ", n) ELSE t)
  ELSE Indent(SubSeq(t, 1, Len(t) \div 2), n)
       \o Indent(SubSeq(t, (Len(t) \div 2) + 1, Len(t)), n)

\* sub in t
Contains(t, sub) ==
  \E i \in 0..(Len(t) - Len(sub)) : SubSeq(t, i + 1, i + Len(sub)) = sub

Digit(d) == CASE d = 0 -> "0" [] d = 1 -> "1" [] d = 2 -> "2" [] d = 3 -> "3"
              [] d = 4 -> "4" [] d = 5 -> "5" [] d = 6 -> "6" [] d = 7 -> "7"
              [] d = 8 -> "8" [] d = 9 -> "9"

\* str(n) of an int n >= 0
RECURSIVE IntStr(_)
IntStr(n) == IF n < 10 THEN Digit(n) ELSE IntStr(n \div 10) \o Digit(n % 10)

\* ---------------------------------------------------- formatter: values
\* A Python object a record carries is the pair of its type's name and its
\* value.
Absent    == <<"absent", <<>>>>      \* no such key in record.args
VNone     == <<"NoneType", <<>>>>
VBool(b)  == <<"bool", b>>
VStr(s)   == <<"str", s>>            \* s: the atoms of the str
VInt(n)   == <<"int", n>>
VFloat(s) == <<"float", s>>          \* s: the atoms of its repr
VDict(p)  == <<"dict", p>>           \* p: the items, in order
VList(e)  == <<"list", e>>
VStatus(c) == <<"LogContextStatus", c>>
\* An object whose __repr__ raises.
VBad      == <<"Bad", <<>>>>

\* type(x).__name__
TypeOf(x) == x[1]

\* The value of x, by its type: a truth value, a number, the atoms of a str
\* or of a float's repr, the items of a dict, the elements of a list.
ValueOf(x) == x[2]

IsFalse(x) == TypeOf(x) = "bool" /\ ValueOf(x) = FALSE
IsTrue(x)  == TypeOf(x) = "bool" /\ ValueOf(x) = TRUE

\* bool(x)
Truthy(x) ==
  CASE TypeOf(x) \in {"absent", "NoneType"} -> FALSE
    [] TypeOf(x) = "bool" -> ValueOf(x)
    [] TypeOf(x) = "int" -> ValueOf(x) # 0
    [] TypeOf(x) \in {"str", "dict", "list"} -> ValueOf(x) # <<>>
    [] OTHER -> TRUE

\* repr(x) raises
ReprRaises(x) ==
  \/ TypeOf(x) = "Bad"
  \/ TypeOf(x) = "dict" /\ \E i \in 1..Len(ValueOf(x)) :
                       \/ TypeOf(ValueOf(x)[i][1]) = "Bad"
                       \/ TypeOf(ValueOf(x)[i][2]) = "Bad"
  \/ TypeOf(x) = "list" /\ \E i \in 1..Len(ValueOf(x)) :
                       TypeOf(ValueOf(x)[i]) = "Bad"

\* repr(x) of a scalar
ScalarRepr(x) ==
  CASE TypeOf(x) = "str" -> <<"'">> \o ValueOf(x) \o <<"'">>
    [] TypeOf(x) = "int" -> <<IntStr(ValueOf(x))>>
    [] TypeOf(x) = "float" -> ValueOf(x)
    [] TypeOf(x) = "bool" -> IF ValueOf(x) THEN <<"True">> ELSE <<"False">>
    [] OTHER -> <<"None">>

RECURSIVE JoinItems(_, _)
JoinItems(p, i) ==
  IF i > Len(p) THEN <<>>
  ELSE (IF i > 1 THEN <<",", " ">> ELSE <<>>)
       \o ScalarRepr(p[i][1]) \o <<":", " ">> \o ScalarRepr(p[i][2])
       \o JoinItems(p, i + 1)

RECURSIVE JoinElems(_, _)
JoinElems(e, i) ==
  IF i > Len(e) THEN <<>>
  ELSE (IF i > 1 THEN <<",", " ">> ELSE <<>>) \o ScalarRepr(e[i])
       \o JoinElems(e, i + 1)

\* repr(x), and pprint.pformat(x) of a value that fits one line of
\* output_width (250) characters and whose keys are in pprint's order
Repr(x) ==
  CASE TypeOf(x) = "dict" -> <<"{">> \o JoinItems(ValueOf(x), 1) \o <<"}">>
    [] TypeOf(x) = "list" -> <<"[">> \o JoinElems(ValueOf(x), 1) \o <<"]">>
    [] OTHER -> ScalarRepr(x)

\* str(x)
StrOf(x) == IF TypeOf(x) = "str" THEN ValueOf(x) ELSE Repr(x)

\* str(type(x))
TypeStr(x) == <<"<class", " ", "'" \o TypeOf(x) \o "'>">>

\* --------------------------------------------------- formatter: records
\* traceback.FrameSummary.  filename is the path relative to
\* LogConfig.BASE_PATH, under which every file here lies.
Frame(f, l, n) == [filename |-> f, lineno |-> l, name |-> n]

\* The host program: main() calls handler(), which calls work() in a try
\* block and logs in the block's except clause.
CallSite  == Frame("app.py", 12, "handler")
RaiseSite == Frame("app.py", 7, "work")
CallStack == <<Frame("app.py", 30, "main"), CallSite>>

\* sys.exc_info() outside an except clause, and inside the one that caught
\* ValueError("boom") raised in work(): class, str(value), and the frames
\* traceback.extract_tb gives for its traceback.
NoExc == [cls |-> "None", text |-> <<"None">>, tb |-> <<>>]
Boom  == [cls |-> "ValueError", text |-> <<"boom">>,
          tb |-> <<CallSite, RaiseSite>>]

\* An exc_info tuple: the exception's class, the exception (which keeps
\* its own traceback), and what stands in the traceback's place.
VExcInfo(e, tb) == <<"tuple", [cls |-> e.cls, value |-> e, tb |-> tb]>>

\* Log.findCaller(stack_info): traceback.extract_stack()[:-3], a list, of a
\* call that came through one of the level methods.
findCaller(stack_info) == IF stack_info THEN VList(CallStack) ELSE VNone

\* The LogRecord a call of a level method of Log leaves with the sinks:
\* the extra dict of Log.log merged over its keyword arguments, as
\* record.args; no exc_info is handed to logging.Logger.log.
makeRecord(c) ==
  [msg |-> c.msg, levelno |-> c.level,
   args |-> [title |-> c.title,
             heading |-> IF IsFalse(c.heading) \/ TypeOf(c.heading) = "NoneType"
                         THEN VBool(FALSE) ELSE c.heading,
             table |-> c.table, relatime |-> c.relatime,
             location |-> c.location,
             stack_trace |-> findCaller(c.exc_info),
             exc_info |-> VExcInfo(c.active, ValueOf(findCaller(c.exc_info))),
             context |-> c.context],
   exc_info |-> VNone,
   pathname |-> CallSite.filename, lineno |-> CallSite.lineno,
   funcName |-> CallSite.name, relativeCreated |-> c.seconds]

NoArgs == [title |-> Absent, heading |-> Absent, table |-> Absent,
           relatime |-> Absent, location |-> Absent, stack_trace |-> Absent,
           exc_info |-> Absent, context |-> Absent]

\* The marker record of logContextStatusOpening / logContextStatusClosing.
markerRecord(kind, heading, lvl) ==
  [msg |-> VNone, levelno |-> lvl,
   args |-> [NoArgs EXCEPT !.context = VStatus(kind), !.heading = VStr(heading)],
   exc_info |-> VNone,
   pathname |-> CallSite.filename, lineno |-> CallSite.lineno,
   funcName |-> CallSite.name, relativeCreated |-> 0]

\* The record of Log.handle_uncaught_exception: the root logger's
\* critical() of the standard library, with the exception as exc_info.
uncaughtRecord(e) ==
  [msg |-> VStr(<<"Uncaught", " ", "exception">>), levelno |-> CRITICAL,
   args |-> NoArgs,
   exc_info |-> VExcInfo(e, e.tb),
   pathname |-> "logger.py", lineno |-> 176,
   funcName |-> "handle_uncaught_exception", relativeCreated |-> 75]

\* logging.getLevelName(levelno)
levelname(lvl) ==
  CASE lvl = CRITICAL -> "CRITICAL" [] lvl = WARNING -> "WARNING"
    [] lvl = INFO -> "INFO" [] lvl = DEBUG -> "DEBUG" [] OTHER -> "NOTSET"

\* ---------------------------------------- formatter: DynamicLogFormatter
\* The formatter of the file sink: DynamicLogFormatter(), color False, so
\* that clear, eol and every colour but COLOR_CONTEXT_MARKER are "".
column_name_width == 50
context_marker_width == 120
ANSI_GREEN == "\\u001b[32m"
COLOR_CONTEXT_MARKER == ANSI_GREEN

\* DynamicLogFormatter.caller_location_string(record, prefix)
caller_location_string(path, line, func, prefix) ==
  ljust((IF prefix = "" THEN <<>> ELSE <<prefix>>) \o <<" ", path>>, 100)
  \o <<" ", ",", " ">>
  \o ljust(<<"line", " ", "#", " ", IntStr(line)>>, 12)
  \o <<" ", "in", " ">>
  \o ljust(<<func>>, 30)

\* DynamicLogFormatter.formatStack(stack_info), from frame i on.  Every
\* frame but the last is indented: LogConfig.FORMATTER_STACK_FILTER is False.
RECURSIVE formatStack(_, _)
formatStack(stack_info, i) ==
  IF i > Len(stack_info) THEN <<>>
  ELSE caller_location_string(stack_info[i].filename, stack_info[i].lineno,
                              stack_info[i].name,
                              IF i = Len(stack_info) THEN "" ELSE "    ")
       \o <<"\n">> \o formatStack(stack_info, i + 1)

\* DynamicLogFormatter.make_row(key, value), called with an item
make_row(k, val) ==
  IF TypeOf(k) \in {"str", "int", "bool"}
  THEN [exc |-> IF ReprRaises(val) THEN "RuntimeError" ELSE "None",
        row |-> ljust(StrOf(k), column_name_width) \o <<":", " ">>
                \o Repr(val) \o <<"\n">>]
  ELSE [exc |-> IF ReprRaises(k) THEN "RuntimeError" ELSE "None",
        row |-> Repr(k)]

\* The loop over the items of a table: the rows so far, or the exception
\* a row raised.
RECURSIVE make_rows(_, _)
make_rows(items, i) ==
  IF i > Len(items) THEN [exc |-> "None", row |-> <<>>]
  ELSE Then(make_row(items[i][1], items[i][2]), LAMBDA first :
         IF first.exc # "None" THEN first
         ELSE Then(make_rows(items, i + 1), LAMBDA rest :
                [exc |-> rest.exc, row |-> first.row \o rest.row]))

\* { k: v for k, v in enumerate(list) }.items()
enumerate(e) == [i \in 1..Len(e) |-> <<VInt(i - 1), e[i]>>]

\* The relative timestamp of format(), for less than an hour.
prependtimeOf(seconds) ==
  <<"[">> \o Fill(" ", 5)
  \o (IF seconds >= 60
      THEN <<(IF (seconds \div 60) % 60 < 10 THEN "0" ELSE "")
             \o IntStr((seconds \div 60) % 60) \o "m">>
      ELSE Fill(" ", 3))
  \o <<" ">>
  \o <<(IF seconds % 60 < 10 THEN "0" ELSE "") \o IntStr(seconds % 60) \o "s]">>
  \o <<" ">>

\* The local variables of format() on entry (formatter.py 162-186).
formatLocals(r) ==
  Then(IF TypeOf(r.args.heading) # "absent" /\ ~IsFalse(r.args.heading)
       THEN r.args.heading ELSE VBool(FALSE), LAMBDA hd :
    [rec |-> r, exc |-> "None",
     errors |-> IF ReprRaises(r.msg) THEN 1 ELSE 0,
     output |-> <<>>,
     title |-> IF TypeOf(hd) = "str" THEN ValueOf(hd) ELSE <<>>,
     heading |-> hd, closing |-> hd,
     context |-> IF TypeOf(r.args.context) = "LogContextStatus"
                    /\ ValueOf(r.args.context) \in {OPENING, CURRENT, CLOSING}
                 THEN ValueOf(r.args.context) ELSE "False",
     relatime |-> IF TypeOf(r.args.relatime) # "absent" THEN r.args.relatime
                  ELSE VBool(FALSE),
     stack_trace |-> IF TypeOf(r.args.stack_trace) = "list"
                     THEN [on |-> TRUE, frames |-> ValueOf(r.args.stack_trace)]
                     ELSE [on |-> FALSE, frames |-> <<>>],
     flag_location |-> IF TypeOf(r.args.location) # "absent" THEN r.args.location
                       ELSE VBool(FALSE),
     table |-> IF TypeOf(r.args.table) # "absent" THEN r.args.table
               ELSE VBool(FALSE),
     level_print |-> <<>>, prependtime |-> <<>>, location |-> <<>>,
     context_marker |-> <<>>, text |-> <<>>, returned |-> FALSE])

\* The payload made a str: as it is, as a table, or pretty-printed
\* (formatter.py 190-232).  No payload here has a to_string method.
formatPayload(f) ==
  IF TypeOf(f.rec.msg) = "str" THEN [f EXCEPT !.output = ValueOf(f.rec.msg)]
  ELSE IF Truthy(f.table)
  THEN Then([f EXCEPT !.title = IF f.title # <<>> THEN f.title
                                ELSE TypeStr(f.rec.msg)], LAMBDA g :
         IF TypeOf(g.rec.msg) \notin {"dict", "list"}
         THEN [g EXCEPT !.exc = "TypeError"]
         ELSE Then(make_rows(IF TypeOf(g.rec.msg) = "dict" THEN ValueOf(g.rec.msg)
                             ELSE enumerate(ValueOf(g.rec.msg)), 1), LAMBDA rows :
                IF rows.exc # "None" THEN [g EXCEPT !.exc = rows.exc]
                ELSE [g EXCEPT !.output = rows.row]))
  ELSE IF ReprRaises(f.rec.msg) THEN [f EXCEPT !.exc = "LogFormatException"]
  ELSE [f EXCEPT !.output = Repr(f.rec.msg)]

\* The level name of a warning or critical record (formatter.py 234-238).
formatLevel(f) ==
  IF f.rec.levelno \in {WARNING, CRITICAL}
  THEN [f EXCEPT !.level_print = <<levelname(f.rec.levelno), " ">>]
  ELSE f

\* A critical record with exc_info: its location becomes the innermost
\* frame of the traceback (formatter.py 253-268).
formatExcInfo(f) ==
  IF f.rec.levelno = CRITICAL /\ TypeOf(f.rec.exc_info) = "tuple"
  THEN Then(ValueOf(f.rec.exc_info).tb, LAMBDA trace :
         IF trace = <<>> THEN [f EXCEPT !.exc = "IndexError"]
         ELSE [f EXCEPT !.rec.lineno = trace[Len(trace)].lineno,
                        !.rec.pathname = trace[Len(trace)].filename,
                        !.rec.funcName = trace[Len(trace)].name,
                        !.title = f.output,
                        !.relatime = VBool(TRUE),
                        !.output = ValueOf(f.rec.exc_info).value.text \o <<" ">>
                                   \o <<"<class", " ",
                                        "'" \o ValueOf(f.rec.exc_info).cls \o "'>">>,
                        !.stack_trace = [on |-> TRUE, frames |-> trace]])
  ELSE f

\* The stack, appended to the payload (formatter.py 270-271).
formatTrace(f) ==
  IF f.stack_trace.on
  THEN [f EXCEPT !.output = @ \o <<"\n">>
                   \o rstripNewlines(formatStack(f.stack_trace.frames, 1))]
  ELSE f

\* The relative timestamp (formatter.py 273-278).
formatTime(f) ==
  IF IsTrue(f.relatime)
  THEN [f EXCEPT !.prependtime = prependtimeOf(f.rec.relativeCreated)]
  ELSE f

\* The context marker; a record with no payload is the marker alone
\* (formatter.py 281-295).
formatContext(f) ==
  IF f.context = "False" THEN f
  ELSE Then([f EXCEPT
               !.closing = VBool(FALSE), !.heading = VBool(FALSE),
               !.context_marker =
                 IF f.context = OPENING
                 THEN <<COLOR_CONTEXT_MARKER>>
                      \o center(<<" ", "START", " ">> \o f.title \o <<" ">>,
                                context_marker_width, ">")
                 ELSE IF f.context = CLOSING
                 THEN <<COLOR_CONTEXT_MARKER>>
                      \o center(<<" ", "END", " ">> \o f.title \o <<" ">>,
                                context_marker_width, "<")
                 ELSE <<>>], LAMBDA g :
         IF TypeOf(g.rec.msg) = "NoneType"
         THEN [g EXCEPT !.returned = TRUE, !.text = g.context_marker]
         ELSE g)

\* The caller's title before the heading's (formatter.py 297-298).
formatUserTitle(f) ==
  IF TypeOf(f.rec.args.title) \notin {"absent", "NoneType"}
     /\ ~IsFalse(f.rec.args.title)
  THEN [f EXCEPT !.title = <<" ">> \o StrOf(f.rec.args.title) \o <<" ">> \o @]
  ELSE f

\* The end-of-block marker of a heading (formatter.py 299-301).
formatClosing(f) ==
  IF Truthy(f.closing)
  THEN [f EXCEPT !.output = @ \o <<"\n">>
                   \o center(<<" ", "END", " ">> \o f.title \o <<" ">>,
                             column_name_width, "<")]
  ELSE f

\* The title line of a heading or a table (formatter.py 302-307).
formatHeading(f) ==
  IF ~IsFalse(f.heading) \/ ~IsFalse(f.table)
  THEN Then(IF TLen(f.title) <= 2 /\ IsTrue(f.table)
            THEN <<" ", "Table", " ">> ELSE f.title, LAMBDA tt :
         [f EXCEPT !.title =
            center(IF tt # <<>> /\ IsSpaces(tt[1]) THEN tt
                   ELSE IF HasText(tt) THEN <<" ">> \o tt \o <<" ">>
                   ELSE <<>>,
                   column_name_width, ">") \o <<"\n">>])
  ELSE f

\* The level name and the ": " of a one-line title (formatter.py 309-331).
formatTitleColumn(f) ==
  Then(column_name_width - TLen(f.prependtime), LAMBDA width :
  Then(IF f.level_print # <<>> THEN ljust(f.level_print \o f.title, width)
       ELSE f.title, LAMBDA t1 :
  Then(IF t1 # <<>> /\ t1[Len(t1)] # "\n" THEN t1 \o <<":", " ">> ELSE t1,
       LAMBDA t2 :
    IF t2 # <<>> /\ IsSpace(t2[1])
    THEN Then(lstrip(t2), LAMBDA t3 :
           [f EXCEPT !.title =
              IF HasColon(t3)
              THEN ljust(RemoveLastColon(t3), width) \o <<":", " ">>
              ELSE t3])
    ELSE [f EXCEPT !.title = t2])))

\* The location line, for a record of level WARNING or above or on
\* request, and the text returned (formatter.py 310-345).  No record
\* here asks for emphasis.
formatJoin(f) ==
  Then(IF f.rec.levelno >= WARNING \/ Truthy(f.flag_location)
       THEN caller_location_string(f.rec.pathname, f.rec.lineno,
                                   f.rec.funcName, ">>>>") \o <<"\n">>
       ELSE <<>>, LAMBDA loc :
    [f EXCEPT !.location = loc,
              !.text = Indent(f.context_marker \o f.prependtime \o loc
                              \o f.title \o f.output,
                              TLen(f.prependtime)),
              !.returned = TRUE])

\* format() has returned or raised.
Done(f) == f.exc # "None" \/ f.returned

\* DynamicLogFormatter.format(record): the text returned or the exception
\* raised, the record as format() leaves it, and the calls of
\* logging_error.
format(r) ==
  Then(formatLocals(r), LAMBDA f0 :
  Then(formatPayload(f0), LAMBDA f1 :
  Then(IF Done(f1) THEN f1 ELSE formatLevel(f1), LAMBDA f2 :
  Then(IF Done(f2) THEN f2 ELSE formatExcInfo(f2), LAMBDA f3 :
  Then(IF Done(f3) THEN f3 ELSE formatTrace(f3), LAMBDA f4 :
  Then(IF Done(f4) THEN f4 ELSE formatTime(f4), LAMBDA f5 :
  Then(IF Done(f5) THEN f5 ELSE formatContext(f5), LAMBDA f6 :
  Then(IF Done(f6) THEN f6 ELSE formatUserTitle(f6), LAMBDA f7 :
  Then(IF Done(f7) THEN f7 ELSE formatClosing(f7), LAMBDA f8 :
  Then(IF Done(f8) THEN f8 ELSE formatHeading(f8), LAMBDA f9 :
  Then(IF Done(f9) THEN f9 ELSE formatTitleColumn(f9), LAMBDA f10 :
  Then(IF Done(f10) THEN f10 ELSE formatJoin(f10), LAMBDA f11 :
    [text |-> IF f11.exc = "None" THEN Norm(f11.text) ELSE <<>>,
     exc |-> f11.exc, rec |-> f11.rec, errors |-> f11.errors]))))))))))))

\* ------------------------------------------------ formatter: the sink
MaxEmits == 2          \* sinks a record is handed to, one after the other

\* Payloads the host program logs.
Payloads ==
  { VStr(<<"hello">>), VInt(5), VNone, VBad,
    VDict(<<>>),
    VDict(<< <<VStr(<<"a">>), VInt(1)>>, <<VStr(<<"b">>), VStr(<<"x">>)>> >>),
    VDict(<< <<VFloat(<<"1.5">>), VStr(<<"v">>)>>, <<VStr(<<"k">>), VInt(2)>> >>),
    VDict(<< <<VInt(3), VNone>> >>),
    VList(<<VInt(7), VStr(<<"x">>)>>) }

\* The calls of Log.info, Log.warning and Log.critical the host program
\* makes at CallSite, by their arguments; exc_info is left at the level
\* method's default, and active is sys.exc_info() at the call.
Calls ==
  { c \in [level : {INFO, WARNING, CRITICAL}, msg : Payloads,
           title : {VNone, VStr(<<"T">>), VStr(<<"s", ":", " ", "t">>)},
           heading : {VNone, VBool(TRUE), VStr(<<"H">>)},
           table : {VBool(FALSE), VBool(TRUE)},
           relatime : {VBool(FALSE), VBool(TRUE)},
           location : {VBool(FALSE)},
           context : {Absent},
           exc_info : BOOLEAN, active : {NoExc, Boom},
           seconds : {0}] :
      /\ c.exc_info = (c.level = CRITICAL)
      /\ c.active = Boom => c.level = CRITICAL }

\* Log.log called with context= among its keyword arguments and no msg.
MarkerCalls ==
  [level : {INFO, WARNING, CRITICAL}, msg : {VNone},
   title : {VNone, VStr(<<"T">>)},
   heading : {VNone, VStr(<<"H">>)},
   table : {VBool(FALSE), VBool(TRUE)},
   relatime : {VBool(FALSE), VBool(TRUE)},
   location : {VBool(FALSE), VBool(TRUE)},
   context : {VStatus(OPENING), VStatus(CLOSING)},
   exc_info : {FALSE}, active : {NoExc}, seconds : {0}]

MarkerHeadings == {<<"H">>, <<"A">>}

Records ==
  {makeRecord(c) : c \in Calls \cup MarkerCalls}
  \cup {markerRecord(k, h, lvl) : k \in {OPENING, CLOSING},
                                  h \in MarkerHeadings,
                                  lvl \in {INFO, WARNING, CRITICAL}}
  \cup {uncaughtRecord(Boom)}

\* Handler.handle(record) of a sink with a DynamicLogFormatter: the text
\* is written, or handleError of QuietFileHandler drops the exception
\* format() raised, and the record with it.
Emit ==
  /\ Len(fraised) < MaxEmits
  /\ \E res \in {format(record)} :
       /\ record' = res.rec
       /\ fraised' = Append(fraised, res.exc)
       /\ written' = IF res.exc = "None" THEN Append(written, res.text)
                     ELSE written
       /\ printed' = printed + res.errors
  /\ UNCHANGED <<gvars, lvars, out, last, raised, stack, fresh, silent,
                 lastop, scen, nlog, nfaults, tvars, ctx, threshold,
                 entry_level, entry_handlers, kvars>>

InitFormat ==
  /\ InitLifecycle
  /\ ctx = [s \in Scopes |-> Plain(ScopeLogger(s), s)]
  /\ record \in Records
  /\ written = <<>>
  /\ fraised = <<>>

NextFormat == Emit

SpecFormat == InitFormat /\ [][NextFormat]_vars

\* ------------------------------------------- the arguments of Log.log
\* isinstance(x, int): bool is a subclass of int.
IsInt(x) == TypeOf(x) \in {"int", "bool"}

\* Mutant: the swap of line 115-117 keeps the level.
normalize_NoSwap(lvl, msg) ==
  IF ~IsInt(lvl) /\ (TypeOf(msg) = "NoneType" \/ IsInt(msg))
  THEN [level |-> IF TypeOf(msg) = "NoneType" THEN VInt(INFO) ELSE lvl,
        msg |-> lvl]
  ELSE [level |-> lvl, msg |-> msg]

\* Log.log, lines 110-117: level and msg after the correction of a
\* reversed call.
normalize(lvl, msg) ==
  IF ~IsInt(lvl) /\ (TypeOf(msg) = "NoneType" \/ IsInt(msg))
  THEN IF TypeOf(msg) = "NoneType"
       THEN [level |-> VInt(INFO), msg |-> lvl]
       ELSE [level |-> msg, msg |-> lvl]
  ELSE [level |-> lvl, msg |-> msg]

\* Ranks a str is parsed to.
MaxRank == 99

\* int(x) of line 150: the value, or the exception it raises.
IntOf(x) ==
  CASE TypeOf(x) = "int" -> [exc |-> "None", value |-> ValueOf(x)]
    [] TypeOf(x) = "bool" ->
         [exc |-> "None", value |-> IF ValueOf(x) THEN 1 ELSE 0]
    [] TypeOf(x) = "str" ->
         IF \E n \in 0..MaxRank : <<IntStr(n)>> = ValueOf(x)
         THEN [exc |-> "None",
               value |-> CHOOSE n \in 0..MaxRank : <<IntStr(n)>> = ValueOf(x)]
         ELSE [exc |-> "ValueError", value |-> NoLevel]
    [] OTHER -> [exc |-> "TypeError", value |-> NoLevel]

\* What the host program passes as level and as msg.
ArgLevels ==
  { VInt(INFO), VInt(WARNING), VBool(TRUE), VStr(<<"hello">>),
    VStr(<<"30">>), VNone, VList(<<VInt(7)>>) }
ArgMsgs ==
  { VNone, VInt(WARNING), VInt(TRACE), VBool(TRUE), VStr(<<"hello">>),
    VList(<<VInt(7)>>) }

\* The call as the level methods would have made it, for makeRecord.
CallOf(lvl, msg) ==
  [level |-> lvl, msg |-> msg, title |-> VNone, heading |-> VNone,
   table |-> VBool(FALSE), relatime |-> VBool(TRUE),
   location |-> VBool(FALSE), context |-> Absent, exc_info |-> FALSE,
   active |-> NoExc, seconds |-> 0]

\* Log.log(lvl, msg) on logger l with whatever the caller put first and
\* second; record is the LogRecord the call made, if it made one.
LogArgs(l, lvl, msg) ==
  /\ nlog < MaxLogs
  /\ nlog' = nlog + 1
  /\ \E n \in {normalize(lvl, msg)} :
     \E i \in {IntOf(n.level)} :
     \E f \in {IF i.exc = "None" THEN NoFault
                ELSE [NoFault EXCEPT !.at = "int", !.kind = i.exc]} :
     \E w \in {log(World, l, i.value, nlog + 1, PyNone, f, 0)} :
       /\ Apply(w)
       /\ lastop' = [op |-> "log", arg |-> l, status |-> status,
                     current |-> context_current, fault |-> f,
                     fired |-> w.fired, frames |-> w.frames,
                     level |-> lvl, msg |-> msg]
       /\ record' = IF w.last # <<>> THEN makeRecord(CallOf(i.value, n.msg))
                    ELSE NoRecord
  /\ scen' = [n |-> Off, s |-> None]
  /\ fresh' = {}
  /\ UNCHANGED <<old_level, closed, stack, silent, nfaults, tvars, ctx,
                 threshold, entry_level, entry_handlers, written, fraised,
                 kvars>>

\* What the host program makes a Level of.
LevelArgs ==
  {VStr(<<LevelNames[i]>>) : i \in 1..Len(LevelNames)}
  \cup {VStr(<<"VERBOSE">>), VInt(NOTSET), VInt(INFO), VInt(45), VNone}

\* Level(id_name): Level.__new__, lines 49-62.  With neither a str nor an
\* int the TypeError of line 60 is made and not raised.
NewLevel(id_name) ==
  /\ \E c \in {[ID |-> level_id, exc |-> "None", dict |-> level_dict]} :
     \E c1 \in {CASE TypeOf(id_name) = "str" -> LevelNew(c, ValueOf(id_name)[1])
                   [] TypeOf(id_name) = "int" -> LevelOfInt(c, ValueOf(id_name))
                   [] OTHER -> c} :
       /\ level_dict' = c1.dict
       /\ level_id' = c1.ID
       /\ raised' = c1.exc
  /\ last' = <<>>
  /\ lastop' = [op |-> "Level", arg |-> id_name, status |-> status,
                current |-> context_current, fault |-> NoFault,
                fired |-> FALSE, frames |-> 0]
  /\ scen' = [n |-> Off, s |-> None]
  /\ UNCHANGED <<gvars, lvars, out, printed, stack, fresh, silent, nlog,
                 nfaults, tvars, ctx, threshold, entry_level, entry_handlers,
                 fvars>>

InitCall ==
  /\ InitLifecycle
  /\ ctx = [s \in Scopes |-> Plain(ScopeLogger(s), s)]
  /\ InitNoRecord

NextCall ==
  \/ \E l \in {"default"}, lvl \in ArgLevels, msg \in ArgMsgs : LogArgs(l, lvl, msg)
  \/ \E id_name \in LevelArgs : NewLevel(id_name)

SpecCall == InitCall /\ [][NextCall]_vars

\* --------------------------------------------------------------- threads
\* The same handlers run by several threads.  GlobalLogContext is a class
\* with plain attributes and neither context.py nor logger.py takes a lock,
\* so a thread may be preempted between any two statements: each action
\* below is one statement (or one run of statements that touch no shared
\* Context State) of the handler, named by its line.  A thread enters and
\* exits its own scope once and logs on that scope's logger.
Goto(t, line) == pc' = [pc EXCEPT ![t] = line]

hidden == <<old_level, closed, last, raised, stack, fresh, silent, lastop,
            scen, nfaults, cvars>>

\* __enter__, lines 87-102: level, handler and title of the scope's logger.
MTEnter(t) ==
  LET s == ScopeOf(t)
      lg == ctx[s].logger
  IN /\ pc[t] = "idle" /\ phase[t] = "new"
     /\ HasTrace(lg)
     /\ phase' = [phase EXCEPT ![t] = "in"]
     /\ IF ctx[s].level # NoLevel
        THEN /\ old_level' = [old_level EXCEPT ![s] = level[lg]]
             /\ level' = [level EXCEPT ![lg] = ctx[s].level]
        ELSE UNCHANGED <<old_level, level>>
     /\ handlers' =
          IF ctx[s].handler # NoHandler
             /\ \A i \in 1..Len(handlers[lg]) : handlers[lg][i] # ctx[s].handler
          THEN [handlers EXCEPT ![lg] = Append(@, ctx[s].handler)]
          ELSE handlers
     /\ title' = [title EXCEPT ![lg] = ctx[s].title]
     /\ Goto(t, "enter103")
     /\ UNCHANGED <<gvars, closed, out, last, printed, raised, stack, fresh,
                    silent, lastop, scen, nlog, nfaults, tslot, cvars>>

\* __enter__, line 103: is another scope, or none, in the current slot?
MTEnter103(t) ==
  /\ pc[t] = "enter103"
  /\ Goto(t, IF context_current # ScopeOf(t) THEN "enter105" ELSE "enter108")
  /\ UNCHANGED <<gvars, lvars, hvars, tslot, phase, cvars>>

\* __enter__, line 105
MTEnter105(t) ==
  /\ pc[t] = "enter105"
  /\ context_pending' = ScopeOf(t)
  /\ Goto(t, "enter106")
  /\ UNCHANGED <<status, context_current, context_prior, context_count,
                 lvars, hvars, tslot, phase, cvars>>

\* __enter__, lines 106-107
MTEnter106(t) ==
  /\ pc[t] = "enter106"
  /\ status' = IF context_current # None THEN CLOSING ELSE status
  /\ Goto(t, "enter108")
  /\ UNCHANGED <<context_current, context_pending, context_prior,
                 context_count, lvars, hvars, tslot, phase, cvars>>

\* __enter__, lines 108-109
MTEnter108(t) ==
  /\ pc[t] = "enter108"
  /\ status' = IF context_current = ScopeOf(t) /\ status = CLOSING
               THEN CURRENT ELSE status
  /\ Goto(t, "idle")
  /\ UNCHANGED <<context_current, context_pending, context_prior,
                 context_count, lvars, hvars, tslot, phase, cvars>>

\* __exit__, lines 121-132: level, title and handler of the scope's logger.
MTExit(t) ==
  LET s == ScopeOf(t)
      lg == ctx[s].logger
  IN /\ pc[t] = "idle" /\ phase[t] = "in"
     /\ level' = IF ctx[s].level # NoLevel
                 THEN [level EXCEPT ![lg] = old_level[s]] ELSE level
     /\ title' = IF ctx[s].title # PyNone
                 THEN [title EXCEPT ![lg] = PyNone] ELSE title
     /\ handlers' = IF ctx[s].handler # NoHandler
                    THEN [handlers EXCEPT ![lg] = removeHandler(@, ctx[s].handler, PyNone)]
                    ELSE handlers
     /\ closed' = IF ctx[s].handler # NoHandler /\ ctx[s].close
                  THEN closed \cup {ctx[s].handler} ELSE closed
     /\ Goto(t, "exit133")
     /\ UNCHANGED <<gvars, old_level, hvars, tslot, phase, cvars>>

\* __exit__, lines 133-134
MTExit133(t) ==
  /\ pc[t] = "exit133"
  /\ status' = IF context_count[ScopeOf(t)] > 0 THEN CLOSING ELSE status
  /\ Goto(t, "exit139")
  /\ UNCHANGED <<context_current, context_pending, context_prior,
                 context_count, lvars, hvars, tslot, phase, cvars>>

\* __exit__, line 139
MTExit139(t) ==
  /\ pc[t] = "exit139"
  /\ context_count' = [context_count EXCEPT ![ScopeOf(t)] = 0]
  /\ phase' = [phase EXCEPT ![t] = "out"]
  /\ Goto(t, "idle")
  /\ UNCHANGED <<status, context_current, context_pending, context_prior,
                 lvars, hvars, tslot, cvars>>

\* Log.log, lines 109-121: the caller is captured and the current scope's
\* record count is incremented.
MTLog(t) ==
  /\ pc[t] = "idle"
  /\ nlog < MaxLogs
  /\ nlog' = nlog + 1
  /\ context_count' = IF status = CURRENT /\ context_current # None
                      THEN [context_count EXCEPT ![context_current] = @ + 1]
                      ELSE context_count
  /\ Goto(t, "log122")
  /\ UNCHANGED <<status, context_current, context_pending, context_prior,
                 lvars, out, printed, hidden, tslot, phase>>

\* Log.log, line 122
MTLog122(t) ==
  /\ pc[t] = "log122"
  /\ Goto(t, IF status = CLOSING THEN "log218" ELSE "log128")
  /\ UNCHANGED <<gvars, lvars, hvars, tslot, phase, cvars>>

\* logContextStatusClosing, lines 218-224: the CLOSING marker of the scope
\* in the current slot.
MTLog218(t) ==
  /\ pc[t] = "log218"
  /\ LET l == ScopeLogger(ScopeOf(t))
         c == context_current
     IN out' = IF c # None /\ ctx[c].heading # PyFalse
               THEN LoggerLog([World EXCEPT !.level[l] =
                                 IF ctx[c].level # NoLevel THEN ctx[c].level ELSE INFO],
                              l, Marker(CLOSING, c, getHeading(c), l), NoFault).out
               ELSE out
  /\ Goto(t, "log226")
  /\ UNCHANGED <<gvars, lvars, printed, nlog, hidden, tslot, phase>>

\* logContextStatusClosing, line 226
MTLog226(t) ==
  /\ pc[t] = "log226"
  /\ status' = NOCONTEXT
  /\ Goto(t, "log227")
  /\ UNCHANGED <<context_current, context_pending, context_prior,
                 context_count, lvars, hvars, tslot, phase, cvars>>

\* logContextStatusClosing, lines 227-228 (context_prior is read nowhere)
MTLog227(t) ==
  /\ pc[t] = "log227"
  /\ context_prior' = context_current
  /\ context_current' = None
  /\ Goto(t, "log128")
  /\ UNCHANGED <<status, context_pending, context_count, lvars, hvars, tslot,
                 phase, cvars>>

\* Log.log, line 128
MTLog128(t) ==
  /\ pc[t] = "log128"
  /\ Goto(t, IF context_pending # None THEN "log129" ELSE "log150")
  /\ UNCHANGED <<gvars, lvars, hvars, tslot, phase, cvars>>

\* Log.log, line 129: the argument of setContextStatus is read.
MTLog129(t) ==
  /\ pc[t] = "log129"
  /\ tslot' = [tslot EXCEPT ![t] = context_pending]
  /\ Goto(t, "log197")
  /\ UNCHANGED <<gvars, lvars, hvars, phase, cvars>>

\* setContextStatus, line 197
MTLog197(t) ==
  /\ pc[t] = "log197"
  /\ context_current' = tslot[t]
  /\ Goto(t, "log204")
  /\ UNCHANGED <<status, context_pending, context_prior, context_count,
                 lvars, hvars, tslot, phase, cvars>>

\* logContextStatusOpening, lines 204-207: the OPENING marker of the scope
\* in the current slot; with the slot emptied by another thread the
\* attribute access raises, and the except clause of Log.log prints.
MTLog204(t) ==
  /\ pc[t] = "log204"
  /\ LET l == ScopeLogger(ScopeOf(t))
         c == context_current
     IN IF c = None
        THEN /\ printed' = printed + 1
             /\ Goto(t, "idle")
             /\ UNCHANGED out
        ELSE /\ out' = IF ctx[c].heading # PyFalse
                       THEN LoggerLog(World, l,
                                      Marker(OPENING, c, Str(getHeading(c)), l),
                                      NoFault).out
                       ELSE out
             /\ Goto(t, "log208")
             /\ UNCHANGED printed
  /\ UNCHANGED <<gvars, lvars, nlog, hidden, tslot, phase>>

\* logContextStatusOpening, line 208
MTLog208(t) ==
  /\ pc[t] = "log208"
  /\ status' = CURRENT
  /\ Goto(t, "log209")
  /\ UNCHANGED <<context_current, context_pending, context_prior,
                 context_count, lvars, hvars, tslot, phase, cvars>>

\* logContextStatusOpening, line 209
MTLog209(t) ==
  /\ pc[t] = "log209"
  /\ IF context_current = None
     THEN /\ printed' = printed + 1
          /\ Goto(t, "idle")
          /\ UNCHANGED context_count
     ELSE /\ context_count' = [context_count EXCEPT ![context_current] = @ + 1]
          /\ Goto(t, "log130")
          /\ UNCHANGED printed
  /\ UNCHANGED <<status, context_current, context_pending, context_prior,
                 lvars, out, nlog, hidden, tslot, phase>>

\* Log.log, line 130
MTLog130(t) ==
  /\ pc[t] = "log130"
  /\ context_pending' = None
  /\ Goto(t, "log150")
  /\ UNCHANGED <<status, context_current, context_prior, context_count,
                 lvars, hvars, tslot, phase, cvars>>

\* Log.log, lines 133-150: the caller's record.
MTLog150(t) ==
  /\ pc[t] = "log150"
  /\ LET l == ScopeLogger(ScopeOf(t))
     IN out' = LoggerLog(World, l,
                         Body(nlog, INFO, l, MergeTitle(title[l], PyNone)),
                         NoFault).out
  /\ Goto(t, "idle")
  /\ UNCHANGED <<gvars, lvars, printed, nlog, hidden, tslot, phase>>

NextMT ==
  \E t \in Threads :
    \/ MTEnter(t) \/ MTEnter103(t) \/ MTEnter105(t) \/ MTEnter106(t)
    \/ MTEnter108(t)
    \/ MTExit(t) \/ MTExit133(t) \/ MTExit139(t)
    \/ MTLog(t) \/ MTLog122(t) \/ MTLog218(t) \/ MTLog226(t) \/ MTLog227(t)
    \/ MTLog128(t) \/ MTLog129(t) \/ MTLog197(t) \/ MTLog204(t)
    \/ MTLog208(t) \/ MTLog209(t) \/ MTLog130(t) \/ MTLog150(t)

SpecMT == Init /\ [][NextMT]_vars


TypeOK ==
  /\ status \in LogContextStatus
  /\ context_current \in Scopes \cup {None}
  /\ context_pending \in Scopes \cup {None}
  /\ context_prior \in Scopes \cup {None}

\* ----------------------------------------------------------- properties
InStack(s) == \E i \in 1..Len(stack) : stack[i] = s

\* Markers of a kind handed to the sinks for scope s so far.
Markers(context, s) ==
  Cardinality({i \in 1..Len(out) : out[i].context = context /\ out[i].scope = s})

\* The CLOSING marker of scope s is not below the level it is logged under.
MarkerPasses(s) ==
  heading_level >= (IF ctx[s].level # NoLevel THEN ctx[s].level ELSE INFO)

BriefMarker(context, s) ==
  [context |-> context, heading |-> ctx[s].title, msg |-> 0, scope |-> s]

BriefBody(msg) ==
  [context |-> PyNone, heading |-> PyFalse, msg |-> msg, scope |-> None]

\* C1 (contract, as claimed): a scope A with its heading enabled is never
\* replaced in the current slot by a different scope B whose OPENING marker
\* is emitted, unless A's CLOSING marker is emitted before that OPENING
\* marker.
C1_CloseBeforeOpen ==
  [][ \A i \in 1..Len(last') :
        ( /\ last'[i].context = OPENING
          /\ context_current \notin {None, last'[i].scope}
          /\ ctx[context_current].heading # PyFalse
          /\ MarkerPasses(context_current) )
        => \E j \in 1..(i - 1) : /\ last'[j].context = CLOSING
                                 /\ last'[j].scope = context_current ]_vars

\* C2 (contract, as claimed): no OPENING or CLOSING marker is emitted for a
\* scope that was entered and exited with no log() call in between and has
\* not been entered again.
C2_NoMarkerForSilentScope ==
  [][ \A i \in 1..Len(last') :
        last'[i].context \in {OPENING, CLOSING}
        => ~(last'[i].scope \in silent /\ ~InStack(last'[i].scope)) ]_vars

\* C3 (contract, as claimed): once every scope has been exited and a log()
\* call has been processed since, each scope has as many OPENING markers as
\* CLOSING markers.
C3_MarkersBalanced ==
  (stack = <<>> /\ lastop.op = "log")
  => \A s \in Scopes : Markers(OPENING, s) = Markers(CLOSING, s)

\* C4 (contract, as claimed): the OPENING and the CLOSING marker of a scope
\* are rendered with the same heading text.
C4_HeadingsMatch ==
  \A i, j \in 1..Len(out) :
    (out[i].context = OPENING /\ out[j].context = CLOSING
       /\ out[i].scope = out[j].scope)
    => MarkerTitle(out[i]) = MarkerTitle(out[j])

\* C5 (contract, as claimed): after enter(title=T), log, log, exit from the
\* initial state the output is OPENING T, the two records, CLOSING T, and
\* the status is NOCONTEXT.
C5_ScenarioAsClaimed ==
  scen.n = 4
  => /\ out = <<BriefMarker(OPENING, scen.s), BriefBody(1), BriefBody(2),
                BriefMarker(CLOSING, scen.s)>>
     /\ status = NOCONTEXT

\* C5 (amended): after enter(title=T), log, log, exit from the initial state
\* the output is OPENING T and the two records, and the status is CLOSING
\* with the scope still in the current slot; the next log() call emits
\* CLOSING T before its own record and leaves the status NOCONTEXT.
C5_ScenarioDeferredClose ==
  /\ scen.n = 4
     => /\ out = <<BriefMarker(OPENING, scen.s), BriefBody(1), BriefBody(2)>>
        /\ status = CLOSING
        /\ context_current = scen.s
  /\ scen.n = 5
     => /\ out = <<BriefMarker(OPENING, scen.s), BriefBody(1), BriefBody(2),
                   BriefMarker(CLOSING, scen.s), BriefBody(3)>>
        /\ status = NOCONTEXT
        /\ context_current = None

C5_Witness == scen.n = 5 /\ Len(out) = 5

\* C6 (contract): enter() of the scope in the current slot while the status
\* is CURRENT leaves status, current, pending and prior unchanged, and while
\* that scope is current no log() call emits an OPENING marker for it.
C6_ReenterIdempotent ==
  [][ \A s \in Scopes :
        (context_current = s /\ status = CURRENT)
        => /\ (lastop'.op = "enter" /\ lastop'.arg = s)
              => UNCHANGED <<status, context_current, context_pending,
                             context_prior>>
           /\ \A i \in 1..Len(last') :
                ~(last'[i].context = OPENING /\ last'[i].scope = s) ]_vars

C6_Witness ==
  /\ lastop.op = "enter"
  /\ lastop.arg = lastop.current
  /\ lastop.status = CURRENT
  /\ status = CURRENT
  /\ context_current = lastop.arg

\* The OPENING and CLOSING markers handed to the sinks so far, in order.
MarkerSeq == SelectSeq(out, LAMBDA r : r.context # PyNone)

\* C7 (contract, as claimed): a log() call never raises to its caller,
\* whatever failure it meets.
C7_LogNeverRaises ==
  lastop.op = "log" => raised = "None"

\* C8 (contract, as claimed): a log() call that meets an OSError from a sink
\* leaves exactly that sink detached from every handler list, every other
\* sink attached, and hands a record of critical severity to sinks that do
\* not include the failing one.
C8_FailingSinkDetached ==
  [][ ( /\ lastop'.op = "log"
        /\ lastop'.fired
        /\ lastop'.fault.at = "sink"
        /\ lastop'.fault.kind = "OSError" )
      => /\ \A l \in AllLoggers :
              handlers'[l] = removeHandler(handlers[l], lastop'.fault.sink, PyNone)
         /\ \E i \in 1..Len(last') :
              /\ last'[i].levelno = CRITICAL
              /\ lastop'.fault.sink \notin last'[i].to ]_vars

\* C9 (contract, as claimed): a log() call uses at most two Log.log frames,
\* its own and that of one fallback report.
C9_SingleFallback ==
  lastop.op = "log" => lastop.frames <= 2

\* Both scopes are constructed with a title and nothing else, so that every
\* marker passes every level.
PlainScopes == \A s \in Scopes : ctx[s] = Plain(ScopeLogger(s), s)

\* C10 (contract, as claimed): with two threads, each entering and exiting
\* a titled scope of its own once and logging, the markers handed to the
\* sinks are bracketed under every interleaving: an OPENING marker is the
\* first marker or follows a CLOSING marker, and a CLOSING marker follows the
\* OPENING marker of its own scope.
C10_MarkersBracketed ==
  PlainScopes
  => \A i \in 1..Len(MarkerSeq) :
       /\ MarkerSeq[i].context = OPENING
          => (i = 1 \/ MarkerSeq[i - 1].context = CLOSING)
       /\ MarkerSeq[i].context = CLOSING
          => /\ i > 1
             /\ MarkerSeq[i - 1].context = OPENING
             /\ MarkerSeq[i - 1].scope = MarkerSeq[i].scope

\* The status changes the transition table allows an operation to make, a
\* log() call making up to two of them in a row (close, then promote).
TableSteps(op) ==
  CASE op = "enter" -> {<<CURRENT, CLOSING>>}
    [] op = "exit"  -> {<<CURRENT, CLOSING>>, <<CURRENT, NOCONTEXT>>}
    [] op = "log"   -> {<<NOCONTEXT, CURRENT>>, <<CLOSING, NOCONTEXT>>,
                        <<CLOSING, CURRENT>>}
    [] OTHER        -> {}

\* C11 (contract, as claimed): every change of the status made by enter(),
\* exit() or log() is a transition of the table; CLOSING -> CURRENT by
\* enter() and NOCONTEXT -> CLOSING are not among them.
C11_StatusFollowsTable ==
  [][ status' # status => <<status, status'>> \in TableSteps(lastop'.op) ]_vars

\* C12 (contract): whenever the pending slot holds a scope, the current slot
\* does not hold the same scope.
C12_PendingDiffersFromCurrent ==
  context_pending # None => context_pending # context_current

C12_Witness ==
  /\ context_pending # None
  /\ context_current # None
  /\ lastop.op = "enter"
  /\ lastop.arg = context_pending

\* C13 (contract, as claimed): exit() of the current scope while its count
\* is 0 and the status is CURRENT leaves the status NOCONTEXT and the current
\* slot empty.
C13_SilentExitClears ==
  [][ ( /\ lastop'.op = "exit"
        /\ status = CURRENT
        /\ context_current = lastop'.arg
        /\ context_count[lastop'.arg] = 0 )
      => (status' = NOCONTEXT /\ context_current' = None) ]_vars

\* C14 (contract, as claimed): when exit(S) changes the status to CLOSING, S
\* is the scope in the current slot.
C14_ExitClosesOnlyItself ==
  [][ ( /\ lastop'.op = "exit"
        /\ status # CLOSING
        /\ status' = CLOSING )
      => context_current = lastop'.arg ]_vars

\* C15 (contract, as claimed): a log() call that finds the status CLOSING
\* emits the CLOSING marker of the current scope first and leaves the status
\* NOCONTEXT, prior = the scope that was current, current = None.
C15_NextLogCloses ==
  [][ (lastop'.op = "log" /\ status = CLOSING)
      => /\ Len(last') >= 1
         /\ last'[1].context = CLOSING
         /\ last'[1].scope = context_current
         /\ status' = NOCONTEXT
         /\ context_prior' = context_current
         /\ context_current' = None ]_vars

\* C15 (amended): exit() hands nothing to the sinks; a log() call on any
\* logger that finds the status CLOSING and a scope in the current slot sets
\* prior to that scope and emits its CLOSING marker before anything else if
\* the scope's heading is not off and the marker's severity is not below the
\* scope's own level, and no CLOSING marker otherwise; with nothing pending
\* it leaves the status NOCONTEXT and the current slot empty, with a scope
\* pending it leaves that scope current and the status CURRENT.
C15_NextLogClosesWhenDue ==
  [][ /\ lastop'.op = "exit" => (out' = out /\ last' = <<>>)
      /\ (lastop'.op = "log" /\ status = CLOSING /\ context_current # None)
         => /\ context_prior' = context_current
            /\ IF ctx[context_current].heading # PyFalse
                  /\ MarkerPasses(context_current)
               THEN /\ Len(last') >= 1
                    /\ last'[1].context = CLOSING
                    /\ last'[1].scope = context_current
                    /\ \A i \in 2..Len(last') : last'[i].context # CLOSING
               ELSE \A i \in 1..Len(last') : last'[i].context # CLOSING
            /\ IF context_pending = None
               THEN status' = NOCONTEXT /\ context_current' = None
               ELSE status' = CURRENT /\ context_current' = context_pending ]_vars

C15_Witness ==
  /\ lastop.op = "log"
  /\ lastop.status = CLOSING
  /\ lastop.current # None
  /\ lastop.arg # ScopeLogger(lastop.current)
  /\ Len(last) = 2
  /\ last[1].context = CLOSING
  /\ last[1].scope = lastop.current
  /\ status = NOCONTEXT
  /\ context_prior = lastop.current

\* The OPENING marker of scope s is the first record of recs that is not a
\* CLOSING marker, and the only OPENING marker.
OpensFirst(recs, s) ==
  \E i \in 1..Len(recs) :
    /\ recs[i].context = OPENING
    /\ recs[i].scope = s
    /\ \A j \in 1..Len(recs) :
         /\ j < i => recs[j].context = CLOSING
         /\ j > i => recs[j].context = PyNone

\* The severity of a marker is not below the effective level of logger l.
OpeningPasses(l) == heading_level >= getEffectiveLevel(World, l)

\* C16 (contract, as claimed): a log() call that finds S pending leaves S
\* current, nothing pending, the status CURRENT and S's count one higher, and
\* when it emits its record and S's heading is not off it emits S's OPENING
\* marker before it; a log() call that finds S current, the status CURRENT
\* and nothing pending adds one to S's count and emits no marker.
C16_FirstLogPromotes ==
  [][ lastop'.op = "log"
      => /\ context_pending # None
            => /\ context_current' = context_pending
               /\ context_pending' = None
               /\ status' = CURRENT
               /\ context_count'[context_pending] = context_count[context_pending] + 1
               /\ ( /\ ctx[context_pending].heading # PyFalse
                    /\ \E i \in 1..Len(last') : last'[i].context = PyNone )
                  => OpensFirst(last', context_pending)
         /\ (context_pending = None /\ status = CURRENT /\ context_current # None)
            => /\ context_current' = context_current
               /\ status' = CURRENT
               /\ context_count'[context_current] = context_count[context_current] + 1
               /\ \A i \in 1..Len(last') : last'[i].context = PyNone ]_vars

\* C16 (amended): as claimed, except that the OPENING marker is emitted only
\* if S's heading is not off and the marker's severity is not below the
\* level of the logger the call is made on, and no OPENING marker otherwise.
C16_FirstLogPromotesMarkerIfDue ==
  [][ lastop'.op = "log"
      => /\ context_pending # None
            => /\ context_current' = context_pending
               /\ context_pending' = None
               /\ status' = CURRENT
               /\ context_count'[context_pending] = context_count[context_pending] + 1
               /\ IF ctx[context_pending].heading # PyFalse
                     /\ OpeningPasses(lastop'.arg)
                  THEN OpensFirst(last', context_pending)
                  ELSE \A i \in 1..Len(last') : last'[i].context # OPENING
         /\ (context_pending = None /\ status = CURRENT /\ context_current # None)
            => /\ context_current' = context_current
               /\ status' = CURRENT
               /\ context_count'[context_current] = context_count[context_current] + 1
               /\ \A i \in 1..Len(last') : last'[i].context = PyNone ]_vars

C16_Witness ==
  /\ lastop.op = "log"
  /\ lastop.status = CURRENT
  /\ lastop.current # None
  /\ context_current = lastop.current
  /\ context_count[context_current] = 2
  /\ Len(last) = 1
  /\ Markers(OPENING, context_current) = 1

\* C17 (contract): in a log() call that finds the status CLOSING and a scope
\* pending, the records handed to the sinks are, in this order, CLOSING
\* markers of the scope that was current, OPENING markers of the scope that
\* was pending, the caller's record; with both headings on and every level
\* passing they are exactly one of each.
C17_CloseOpenRecord ==
  [][ (lastop'.op = "log" /\ status = CLOSING /\ context_pending # None)
      => /\ \A i, j \in 1..Len(last') :
              i < j => /\ last'[j].context = CLOSING
                          => last'[i].context = CLOSING
                       /\ last'[i].context = PyNone
                          => last'[j].context = PyNone
         /\ \A i \in 1..Len(last') :
              /\ last'[i].context = CLOSING => last'[i].scope = context_current
              /\ last'[i].context = OPENING => last'[i].scope = context_pending
         /\ ( /\ context_current # None
              /\ ctx[context_current].heading # PyFalse
              /\ MarkerPasses(context_current)
              /\ ctx[context_pending].heading # PyFalse
              /\ OpeningPasses(lastop'.arg) )
            => /\ Len(last') = 3
               /\ last'[1].context = CLOSING
               /\ last'[2].context = OPENING
               /\ last'[3].context = PyNone ]_vars

C17_Witness ==
  /\ lastop.op = "log"
  /\ lastop.status = CLOSING
  /\ lastop.current # None
  /\ Len(last) = 3
  /\ last[1].context = CLOSING /\ last[1].scope = lastop.current
  /\ last[2].context = OPENING /\ last[2].scope = context_current
  /\ last[3].context = PyNone
  /\ context_current # lastop.current

\* C18 (contract, as claimed): no OPENING and no CLOSING marker is handed to
\* the sinks for a scope whose getHeading() resolves to no heading.
C18_NoMarkerWithoutHeading ==
  \A i \in 1..Len(out) :
    out[i].context \in {OPENING, CLOSING} => getHeading(out[i].scope) # PyFalse

\* C19 (contract, as claimed): the CLOSING marker of a scope constructed
\* with a level has that level as its severity.
C19_ClosingSeverityIsScopeLevel ==
  \A i \in 1..Len(last) :
    (last[i].context = CLOSING /\ ctx[last[i].scope].level # NoLevel)
    => last[i].levelno = ctx[last[i].scope].level

\* C20 (contract, as claimed): after a log() call has closed the scope in
\* the current slot, that scope's count is 0.
C20_CountZeroAfterClose ==
  [][ (lastop'.op = "log" /\ status = CLOSING /\ context_current # None)
      => context_count'[context_current] = 0 ]_vars

\* C21 (contract): enter() of a scope whose logger is not a Log raises
\* TypeError and leaves the Context State (status, current, pending, prior,
\* counts) and every logger's level, handlers and title as they were; the
\* scope is not entered.
C21_InvalidLoggerRejected ==
  [][ (lastop'.op = "enter" /\ ctx[lastop'.arg].logger \notin Loggers)
      => /\ raised' = "TypeError"
         /\ UNCHANGED <<gvars, lvars>>
         /\ stack' = stack ]_vars

C21_Witness ==
  /\ lastop.op = "enter"
  /\ raised = "TypeError"
  /\ ctx[lastop.arg].level # NoLevel
  /\ ctx[lastop.arg].handler # NoHandler
  /\ status = CURRENT
  /\ stack # <<>>

\* C22 (contract, as claimed): the exit() of a scope constructed with a
\* level leaves its logger at the level the logger had immediately before
\* the matching enter(), the same scope entered again while entered included.
C22_LevelRoundTrip ==
  [][ (lastop'.op = "exit" /\ ctx[lastop'.arg].level # NoLevel)
      => level'[ctx[lastop'.arg].logger] = entry_level[Len(entry_level)] ]_vars

\* No sink is twice in a handler list.
AttachedOnce(hs) == \A i, j \in 1..Len(hs) : hs[i] = hs[j] => i = j

Attached(hs, h) == \E i \in 1..Len(hs) : hs[i] = h

\* C23 (contract): for a scope with an extra sink h, enter() attaches h to
\* the scope's logger unless it is attached already, so that h is never
\* twice in the list; exit() leaves h detached, and closed if and only if
\* the scope's close flag is set, whether the block ended normally or by an
\* exception, and the exception that ended the block is raised again.
C23_ExtraSinkScoped ==
  [][ /\ \A l \in AllLoggers : AttachedOnce(handlers'[l])
      /\ \A s \in Scopes :
           LET h  == ctx[s].handler
               lg == ctx[s].logger
           IN (lastop'.arg = s /\ h # NoHandler)
              => /\ (lastop'.op = "enter" /\ raised' = "None")
                    => /\ Attached(handlers'[lg], h)
                       /\ handlers'[lg] = IF Attached(handlers[lg], h)
                                          THEN handlers[lg]
                                          ELSE Append(handlers[lg], h)
                       /\ closed' = closed
                 /\ lastop'.op = "exit"
                    => /\ ~Attached(handlers'[lg], h)
                       /\ closed' = IF ctx[s].close THEN closed \cup {h}
                                    ELSE closed
                       /\ raised' = lastop'.fault.kind ]_vars

C23_Witness ==
  /\ lastop.op = "exit"
  /\ lastop.fault.kind = "ValueError"
  /\ raised = "ValueError"
  /\ ctx[lastop.arg].handler = "extra"
  /\ ~ctx[lastop.arg].close
  /\ closed = {}
  /\ \A l \in AllLoggers : ~Attached(handlers[l], "extra")
  /\ InStack(lastop.arg)

\* C24 (contract, as claimed): every record of the caller that log() hands
\* to the sinks carries the tag CURRENT when the status is CURRENT at the
\* time it is built, and no tag when there is no context.
C24_BodyTagged ==
  [][ lastop'.op = "log"
      => \A i \in 1..Len(last') :
           last'[i].scope = None
           => last'[i].context = (IF status' = CURRENT THEN CURRENT ELSE PyNone) ]_vars

\* The scope entered last, and not yet exited, among those of logger l.
InnermostOn(l) ==
  LET on == {i \in 1..Len(stack) : ctx[stack[i]].logger = l}
  IN IF on = {} THEN None
     ELSE stack[CHOOSE i \in on : \A j \in on : j <= i]

\* C25 (contract, as claimed): a record logged on logger l while a titled
\* scope of l is entered carries that scope's title, or "scope title: call
\* title" when the call supplies a title; the scope meant is the innermost
\* one entered on l and not yet exited, so also the outer scope once an
\* inner scope on l has exited.
C25_TitlePrefix ==
  [][ lastop'.op = "log"
      => LET s == InnermostOn(lastop'.arg)
         IN (s # None /\ IsStr(ctx[s].title))
            => \A i \in 1..Len(last') :
                 last'[i].scope = None
                 => \/ last'[i].title = ctx[s].title
                    \/ \E t \in CallTitles :
                         last'[i].title = ctx[s].title \o ": " \o t ]_vars

\* C27 (contract): a record, body or marker, is handed to no sink whose
\* threshold exceeds its severity, and a change of a sink's threshold hands
\* no record to any sink: it bears on the records of later calls only.
C27_ThresholdFilters ==
  [][ /\ \A i \in 1..Len(last') : \A s \in last'[i].to :
           last'[i].levelno >= threshold[s]
      /\ lastop'.op = "setLevel" => (out' = out /\ last' = <<>>)
      /\ lastop'.op # "setLevel" => threshold' = threshold ]_vars

C27_Witness ==
  /\ lastop.op = "log"
  /\ threshold["console"] = INFO
  /\ Len(out) >= 2
  /\ \E i \in 1..Len(last) :
       /\ last[i].levelno = INFO
       /\ last[i].context = PyNone
       /\ "console" \in last[i].to
  /\ \E i \in 1..Len(last) :
       /\ last[i].context # PyNone
       /\ "console" \in last[i].to

\* A marker record: context tag OPENING or CLOSING and no payload.
IsMarker(r) ==
  /\ TypeOf(r.msg) = "NoneType"
  /\ TypeOf(r.args.context) = "LogContextStatus"
  /\ ValueOf(r.args.context) \in {OPENING, CLOSING}

\* The banner of a marker record: START or END and the heading, centred at
\* the marker width.
BannerOf(r) ==
  Norm(<<COLOR_CONTEXT_MARKER>>
       \o center(<<" ", IF ValueOf(r.args.context) = OPENING THEN "START" ELSE "END",
                   " ">>
                 \o (IF TypeOf(r.args.heading) = "str" THEN ValueOf(r.args.heading) ELSE <<>>)
                 \o <<" ">>,
                 context_marker_width,
                 IF ValueOf(r.args.context) = OPENING THEN ">" ELSE "<"))

\* C26: a marker record (context tag OPENING or CLOSING, no payload) renders
\* to its banner and nothing else, whatever its level and its hints: every
\* rendering of it returns a text, and the text is the banner.
C26_MarkerBannerOnly ==
  IsMarker(record) =>
    /\ \A i \in 1..Len(fraised) : fraised[i] = "None"
    /\ \A i \in 1..Len(written) : written[i] = BannerOf(record)

\* A record of Log.critical called while an exception is being handled.
IsCriticalWithException(r) ==
  /\ r.levelno = CRITICAL
  /\ TypeOf(r.msg) = "str"
  /\ TypeOf(r.args.exc_info) = "tuple"
  /\ ValueOf(r.args.exc_info).cls # "None"

\* The location line of a frame.
LocationLine(fr) ==
  Norm(caller_location_string(fr.filename, fr.lineno, fr.name, ">>>>"))

\* C28: a record of Log.critical with an exception attached, whose
\* traceback ends at the raise site X:N, is written with X:N as its caller
\* location, and with the formatted stack.
C28_RaiseSiteReported ==
  IsCriticalWithException(record) =>
    \A i \in 1..Len(written) :
      /\ Contains(written[i],
                  LocationLine(ValueOf(record.args.exc_info).value.tb[
                                 Len(ValueOf(record.args.exc_info).value.tb)]))
      /\ Contains(written[i],
                  Norm(Indent(<<"\n">> \o rstripNewlines(
                                formatStack(ValueOf(record.args.stack_trace), 1)),
                              IF IsTrue(record.args.relatime)
                              THEN TLen(prependtimeOf(record.relativeCreated))
                              ELSE 0)))

\* A record whose payload the formatter cannot render: flagged as a table
\* and not iterable, or one whose pretty-print fails.
IsUnrenderable(r) ==
  /\ ~IsMarker(r)
  /\ TypeOf(r.msg) # "str"
  /\ \/ Truthy(r.args.table) /\ TypeOf(r.msg) \notin {"dict", "list"}
     \/ ~Truthy(r.args.table) /\ ReprRaises(r.msg)

\* C29: a payload the formatter cannot render does not abort the record:
\* no rendering of it raises, and every sink it is handed to writes a text.
C29_RenderFailureDelivered ==
  IsUnrenderable(record) =>
    /\ \A i \in 1..Len(fraised) : fraised[i] = "None"
    /\ Len(written) = Len(fraised)

\* A record with a table payload that can be printed.
IsTable(r) ==
  /\ TypeOf(r.msg) \in {"dict", "list"}
  /\ IsTrue(r.args.table)
  /\ ~ReprRaises(r.msg)
  /\ TypeOf(r.args.context) = "absent"

\* The rows of a table of items: key padded to the column width, ": ",
\* value, one row per item.
RECURSIVE RowsOf(_, _)
RowsOf(items, i) ==
  IF i > Len(items) THEN <<>>
  ELSE ljust(StrOf(items[i][1]), column_name_width) \o <<":", " ">>
       \o Repr(items[i][2]) \o <<"\n">> \o RowsOf(items, i + 1)

\* C30: a table payload of N items is written as N rows, each the key
\* padded to the column width, ": ", the value, whatever the types of keys
\* and values; and two renderings of the record give the same text.
C30_TableRows ==
  IsTable(record) =>
    /\ Len(written) = Len(fraised)
    /\ \A i \in 1..Len(written) :
         Contains(written[i],
                  Norm(Indent(RowsOf(IF TypeOf(record.msg) = "dict" THEN ValueOf(record.msg)
                                     ELSE enumerate(ValueOf(record.msg)), 1),
                              IF IsTrue(record.args.relatime)
                              THEN TLen(prependtimeOf(record.relativeCreated))
                              ELSE 0)))
    /\ \A i, j \in 1..Len(written) : written[i] = written[j]

\* C31 (contract): a call log(a, b) whose first argument is not an integer
\* makes, when b is absent, a record with payload a at severity INFO, and
\* when b is an integer, a record with payload a at severity b; any other
\* call uses a as the severity and b as the payload, unchanged; and every
\* record made has an integer severity.
C31_ArgumentsNormalized ==
  lastop.op = "log" =>
    LET a == lastop.level
        b == lastop.msg
    IN /\ (~IsInt(a) /\ TypeOf(b) = "NoneType") =>
            /\ record # NoRecord
            /\ record.msg = a
            /\ record.levelno = INFO
       /\ (~IsInt(a) /\ TypeOf(b) = "int") =>
            /\ record # NoRecord
            /\ record.msg = a
            /\ record.levelno = ValueOf(b)
       /\ (~IsInt(a) /\ TypeOf(b) = "bool") =>
            /\ record # NoRecord
            /\ record.msg = a
            /\ record.levelno = (IF ValueOf(b) THEN 1 ELSE 0)
       /\ (IsInt(a) \/ ~(TypeOf(b) = "NoneType" \/ IsInt(b))) =>
            /\ record # NoRecord => record.msg = b
            /\ TypeOf(a) = "int" =>
                 record # NoRecord /\ record.levelno = ValueOf(a)
       /\ record # NoRecord => record.levelno \in 0..MaxRank

\* A reversed call, log("hello", WARNING), has left a WARNING record whose
\* payload is "hello".
C31_Witness ==
  /\ lastop.op = "log"
  /\ lastop.level = VStr(<<"hello">>)
  /\ lastop.msg = VInt(WARNING)
  /\ record # NoRecord
  /\ record.levelno = WARNING
  /\ record.msg = VStr(<<"hello">>)

\* The rank a name is registered under.
RankOf(name) == CHOOSE r \in DOMAIN level_dict : level_dict[r] = name

\* C32 (contract): the registered severities are exactly the eight names,
\* each under one rank and each rank with one name, ordered trace < debug <
\* info < notice < warning < error < critical, with the unset sentinel
\* below all of them.
C32_RanksOrdered ==
  /\ Cardinality(DOMAIN level_dict) = Len(LevelNames)
  /\ \A i \in 1..Len(LevelNames) :
       Cardinality({r \in DOMAIN level_dict : level_dict[r] = LevelNames[i]}) = 1
  /\ \A r1, r2 \in DOMAIN level_dict :
       level_dict[r1] = level_dict[r2] => r1 = r2
  /\ RankOf("TRACE") < RankOf("DEBUG")
  /\ RankOf("DEBUG") < RankOf("INFO")
  /\ RankOf("INFO") < RankOf("NOTICE")
  /\ RankOf("NOTICE") < RankOf("WARNING")
  /\ RankOf("WARNING") < RankOf("ERROR")
  /\ RankOf("ERROR") < RankOf("CRITICAL")
  /\ \A i \in 2..Len(LevelNames) : RankOf("NOTSET") < RankOf(LevelNames[i])

\* Level("TRACE") has been made again after the module was loaded.
C32_Witness ==
  /\ lastop.op = "Level"
  /\ lastop.arg = VStr(<<"TRACE">>)
  /\ level_id = TRACE
  /\ raised = "None"

\* C33 (behaviour): between operations the status is NOCONTEXT, CURRENT or
\* CLOSING, never OPENING; OPENING is only the tag of marker records.
C33_StatusNeverOpening ==
  /\ status \in {NOCONTEXT, CURRENT, CLOSING}
  /\ \A i \in 1..Len(out) :
       out[i].context = OPENING => out[i].scope # None /\ out[i].msg = 0

\* A log() call has just handed an OPENING marker to the sinks.
C33_Witness ==
  /\ lastop.op = "log"
  /\ \E i \in 1..Len(last) : last[i].context = OPENING
  /\ status = CURRENT

\* C34 (behaviour): when the status is CURRENT the current slot holds a
\* scope, and when the status is NOCONTEXT the current slot is empty.
C34_StatusMatchesSlot ==
  /\ status = CURRENT => context_current # None
  /\ status = NOCONTEXT => context_current = None

\* A log() call has just closed a scope: it found CLOSING and left
\* NOCONTEXT with the current slot empty.
C34_Witness ==
  /\ lastop.op = "log"
  /\ lastop.status = CLOSING
  /\ lastop.current # None
  /\ status = NOCONTEXT
  /\ context_current = None
  /\ context_prior = lastop.current

\* enter() of the scope in the current slot, found with the status CLOSING.
ReentersClosing(op) ==
  /\ op.op = "enter"
  /\ op.current = op.arg
  /\ op.status = CLOSING

\* C35 (behaviour): entering again the scope held in the current slot while
\* the status is CLOSING sets the status to CURRENT, leaves current, pending
\* and prior as they were and hands nothing to the sinks; and the log() call
\* that follows emits neither a CLOSING nor an OPENING marker of that scope.
C35_ReentryResumes ==
  [][ /\ ReentersClosing(lastop') =>
           /\ status' = CURRENT
           /\ UNCHANGED <<context_current, context_pending, context_prior, out>>
      /\ (ReentersClosing(lastop) /\ lastop'.op = "log") =>
           \A i \in 1..Len(last') :
             last'[i].scope = lastop.arg =>
               last'[i].context \notin {OPENING, CLOSING}
    ]_vars

\* The scope in the current slot, closing because another scope was entered
\* while it was current, has just been entered again.
C35_Witness ==
  /\ ReentersClosing(lastop)
  /\ status = CURRENT
  /\ context_pending \notin {None, context_current}

\* The latest operation handed a record of the caller to the sinks.
BodyEmitted == \E i \in 1..Len(last) : last[i].context = PyNone

\* C36 (behaviour, as claimed): a record logged while a scope is entered
\* and not yet exited is emitted with the status CURRENT and the innermost
\* such scope in the current slot.
C36_BodyInInnermostScope ==
  (lastop.op = "log" /\ BodyEmitted /\ stack # <<>>) =>
    /\ status = CURRENT
    /\ context_current = stack[Len(stack)]

\* C37 (behaviour, as claimed): a log() call whose record is below the
\* level of its logger leaves status, current, pending, prior and the
\* message counts as they were and hands nothing to the sinks.
C37_FilteredCallIsInert ==
  [][ \A l \in Loggers, lvl \in LogLevels :
        (Log(l, lvl) /\ ~isEnabledFor(World, l, lvl)) =>
          /\ UNCHANGED gvars
          /\ out' = out
    ]_vars

\* The Context State a log() call leaves when every sink accepts.
Transitioned(l, lvl) ==
  LET w == log(World, l, lvl, nlog + 1, PyNone, NoFault, 0)
  IN <<w.status, w.current, w.pending, w.prior, w.count>>

\* C38 (behaviour, as claimed): a log() call in which a sink raises leaves
\* the Context State either as it was before the call or as the call would
\* have left it without the failure, and never leaves a scope both pending
\* and current.
C38_TransitionAtomic ==
  [][ \A l \in Loggers, lvl \in FaultLevels, f \in Faults :
        (LogFault(l, lvl, f) /\ f.at = "sink" /\ lastop'.fired) =>
          /\ gvars' \in {gvars, Transitioned(l, lvl)}
          /\ context_pending' = None \/ context_pending' # context_current'
    ]_vars

\* The sinks in a handler list.
SinksOf(hs) == {hs[i] : i \in 1..Len(hs)}

\* C39 (behaviour, as claimed): the exit() that matches an enter() leaves
\* the logger with the sinks it had before that enter(), and closes none of
\* the sinks that were attached before it.
C39_SinksRestored ==
  [][ \A s \in Scopes :
        (\E exc \in BlockErrors \cup {"None"} : ExitWith(s, exc)) =>
          LET before == entry_handlers[Len(entry_handlers)]
          IN /\ SinksOf(handlers'[ctx[s].logger]) = SinksOf(before)
             /\ (closed' \ closed) \cap SinksOf(before) = {}
    ]_vars

\* Records of the callers handed to the sinks after an OPENING marker of
\* scope s.
BodiesAfterOpening(s) ==
  Cardinality({i \in 1..Len(out) :
                 /\ out[i].context = PyNone
                 /\ \E j \in 1..(i - 1) :
                      out[j].context = OPENING /\ out[j].scope = s})

\* C40 (behaviour, as claimed): with two threads logging at once, each
\* entering a titled scope of its own at most once, a scope's OPENING and
\* CLOSING markers are emitted at most once each, no log() call ends in
\* the error report of Log.log, and while only one scope has been entered
\* and no call is under way its message count is the number of records
\* logged in it.
C40_ConcurrentLogsCounted ==
  PlainScopes =>
    /\ \A s \in Scopes : Markers(OPENING, s) <= 1 /\ Markers(CLOSING, s) <= 1
    /\ printed = 0
    /\ \A t \in Threads :
         ( /\ \A u \in Threads : pc[u] = "idle"
           /\ phase[t] = "in"
           /\ \A u \in Threads \ {t} : phase[u] = "new"
           /\ Markers(OPENING, ScopeOf(t)) >= 1 )
         => context_count[ScopeOf(t)] = BodiesAfterOpening(ScopeOf(t))

=============================================================================
